---- MODULE Spec2Model ----
(***************************************************************************)
(* A model of the agentic execution engine of MAEUM_CODE.                  *)
(*                                                                         *)
(*   - the transactional workspace of code_tools.py: SafeFileOps,          *)
(*     CodeEditor, UndoManager and TransactionManager (SpecTx);            *)
(*   - the multi_edit tool of ide_server.py that drives them (SpecMulti);  *)
(*   - the UndoManager alone, built with small caps (SpecUndo);            *)
(*   - the WebSocket handler and the agentic loop of ide_server.py, with   *)
(*     two chat connections (SpecLoop) and with one (SpecTurn);            *)
(*   - the token loop that reads one LLM stream and looks for a tool       *)
(*     block in it (SpecStream).                                           *)
(*                                                                         *)
(* A workspace is a function from paths to file contents.  A content is a  *)
(* sequence of bytes; the byte 0 is NUL, so a content holding 0 is what    *)
(* SafeFileOps.read_file calls a binary file.  Files are flat (no          *)
(* directories) and the operating system itself never fails: an operation  *)
(* fails only where the code decides that it does.  The backup copies      *)
(* that SafeFileOps writes below .maeum_backup are not part of the         *)
(* modelled workspace.                                                     *)
(***************************************************************************)
EXTENDS Integers, Sequences, FiniteSets, TLC

(***************************************************************************)
(* Bounds of the model.                                                    *)
(***************************************************************************)
MaxTx == 2          \* transactions begun in one run
MaxStaged == 2      \* changes staged in one run, over all transactions
MaxEdits == 2       \* entries of one multi_edit batch

(***************************************************************************)
(* Python's None for an optional content, and the absence of a file.       *)
(* Both are sequences, like a content, and hold no byte a file can hold.   *)
(***************************************************************************)
None == <<-1>>
NoFile == <<-2>>

\* Path.with_suffix(suffix + '.tmp'): the sibling write_file writes first.
TmpPath(p) == p \o ".tmp"

\* The paths of a workspace f: the paths the run may name.
Paths(f) == DOMAIN f

\* The inputs of the staged operations.
WriteContents == {<<2>>}
OldStrings == {<<1>>}
NewStrings == {<<2>>}
Descriptions == {"tx"}

(***************************************************************************)
(* str.count, str.replace and the `in` test, for a non-empty pattern.      *)
(***************************************************************************)
StartsAt(s, pat, i) ==
    /\ i + Len(pat) - 1 <= Len(s)
    /\ \A k \in 1..Len(pat) : s[i + k - 1] = pat[k]

RECURSIVE CountFrom(_, _, _)
CountFrom(s, pat, i) ==
    IF i + Len(pat) - 1 > Len(s) THEN 0
    ELSE IF StartsAt(s, pat, i) THEN 1 + CountFrom(s, pat, i + Len(pat))
    ELSE CountFrom(s, pat, i + 1)

Count(s, pat) == CountFrom(s, pat, 1)

Contains(s, pat) == \E i \in 1..Len(s) : StartsAt(s, pat, i)

\* s with its first `limit` occurrences of pat, from position i on, replaced.
RECURSIVE ReplaceFrom(_, _, _, _, _)
ReplaceFrom(s, pat, new, i, limit) ==
    IF i > Len(s) THEN <<>>
    ELSE IF limit > 0 /\ StartsAt(s, pat, i)
         THEN new \o ReplaceFrom(s, pat, new, i + Len(pat), limit - 1)
    ELSE <<s[i]>> \o ReplaceFrom(s, pat, new, i + 1, limit)

Replace(s, pat, new) == ReplaceFrom(s, pat, new, 1, Len(s))
ReplaceOnce(s, pat, new) == ReplaceFrom(s, pat, new, 1, 1)

(***************************************************************************)
(* SafeFileOps: each operation takes a workspace f and gives its result,   *)
(* the workspace it leaves, and whether it raised instead of returning.    *)
(***************************************************************************)
Exists(f, p) == f[p] # NoFile

\* The NUL probe of read_file.
IsBinary(c) == \E i \in 1..Len(c) : c[i] = 0

read_file(f, p) ==
    IF ~Exists(f, p) THEN [content |-> None, error |-> "missing"]
    ELSE IF IsBinary(f[p]) THEN [content |-> None, error |-> "binary"]
    ELSE [content |-> f[p], error |-> "none"]

\* The absolute paths of the runs that lie outside the root.
OutsideRoot == {"/x"}

\* _backup_file takes the path relative to the root: a ValueError for a path
\* that is not below it.  Backups are enabled by default.
BackupRaises(p) == p \in OutsideRoot

\* The old content is backed up inside the try block, so a failing backup is
\* a failed write.  The temporary sibling is written and then renamed over
\* the target, so a file that already has the sibling's name is gone
\* afterwards.
write_file(f, p, content) ==
    IF Exists(f, p) /\ read_file(f, p).error = "binary"
    THEN [success |-> FALSE, fs |-> f, raised |-> FALSE]
    ELSE IF Exists(f, p) /\ read_file(f, p).content # None /\ BackupRaises(p)
    THEN [success |-> FALSE, fs |-> f, raised |-> FALSE]
    ELSE IF content = None
    THEN [success |-> FALSE, fs |-> f, raised |-> FALSE]
    ELSE [success |-> TRUE,
          fs |-> [q \in Paths(f) |-> IF q = p THEN content
                                     ELSE IF q = TmpPath(p) THEN NoFile
                                     ELSE f[q]],
          raised |-> FALSE]

\* The old content is backed up before the try block: a failing backup
\* leaves delete_file by the exception.
delete_file(f, p) ==
    IF ~Exists(f, p) THEN [success |-> FALSE, fs |-> f, raised |-> FALSE]
    ELSE IF read_file(f, p).content # None /\ BackupRaises(p)
    THEN [success |-> FALSE, fs |-> f, raised |-> TRUE]
    ELSE [success |-> TRUE, fs |-> [f EXCEPT ![p] = NoFile], raised |-> FALSE]

rename_file(f, old_path, new_path) ==
    IF ~Exists(f, old_path) THEN [success |-> FALSE, fs |-> f, raised |-> FALSE]
    ELSE IF Exists(f, new_path) THEN [success |-> FALSE, fs |-> f, raised |-> FALSE]
    ELSE [success |-> TRUE,
          fs |-> [f EXCEPT ![new_path] = f[old_path], ![old_path] = NoFile],
          raised |-> FALSE]

(***************************************************************************)
(* FileChange and CodeEditor.  diff, error text and timestamp are left     *)
(* out: nothing reads them.                                                *)
(***************************************************************************)
FileChange(op, p, new, old, np, st) ==
    [operation |-> op, file_path |-> p, new_content |-> new,
     old_content |-> old, new_path |-> np, status |-> st]

CodeEditor_edit(f, p, old_string, new_string, replace_all) ==
    LET r == read_file(f, p) IN
    IF r.error # "none"
    THEN FileChange("modify", p, None, None, "", "failed")
    ELSE LET count == Count(r.content, old_string) IN
         IF count = 0
         THEN FileChange("modify", p, None, r.content, "", "failed")
         ELSE IF count > 1 /\ ~replace_all
         THEN FileChange("modify", p, None, r.content, "", "failed")
         ELSE FileChange("modify", p,
                         IF replace_all
                         THEN Replace(r.content, old_string, new_string)
                         ELSE ReplaceOnce(r.content, old_string, new_string),
                         r.content, "", "pending")

CodeEditor_write(f, p, content) ==
    FileChange(IF Exists(f, p) THEN "modify" ELSE "create", p, content,
               IF Exists(f, p) THEN read_file(f, p).content ELSE None,
               "", "pending")

CodeEditor_delete(f, p) ==
    FileChange("delete", p, None, read_file(f, p).content, "", "pending")

CodeEditor_rename(old_path, new_path) ==
    FileChange("rename", old_path, None, None, new_path, "pending")

(***************************************************************************)
(* The state of the transactional workspace.                               *)
(***************************************************************************)
VARIABLES
    fs,                   \* the workspace: path -> content, or NoFile
    current_transaction,  \* TransactionManager._current_transaction, or NoTx
    undo_stack,           \* UndoManager._undo_stack, oldest first
    redo_stack,           \* UndoManager._redo_stack
    total_bytes,          \* UndoManager._total_bytes
    max_stack,            \* UndoManager.max_stack
    max_bytes,            \* UndoManager.max_bytes
    tx_count,             \* transactions begun so far: the source of ids
    staged_count,         \* changes staged so far
    last_result,          \* what the last call returned or raised
    replay,               \* the run of commits, undos and redos under way
    live,                 \* ids committed and not undone, in commit order
    undone,               \* ids undone and not redone, in undo order
    pending_tool_confirmations,  \* IDEServer: confirmation id -> tool_info
    pending_loop_context, \* whether IDEServer has _pending_loop_context
    abort_requested,      \* IDEServer.abort_requested
    pc,                   \* where each connection's handler is
    cancelled,            \* websocket_chat's local flag, per connection
    iteration,            \* _run_agentic_loop's locals, per connection
    exploration_count,
    max_iterations,
    resumed,              \* whether the loop was started by tool_confirm
    confirm_count,        \* confirmation ids made so far
    last_run,             \* the tool executed last, and by whom
    requested,            \* ids whose tool_confirm_request was sent
    runs,                 \* the tools the loop executed in the invocation
    sent,                 \* the events the last step sent to the UI, in order
    received,             \* history: the tool_confirm message the last step took
    parked,               \* history: confirmation id -> the loop's counters then
    conversation_history, \* IDEServer.conversation_history
    compressed_summary,   \* IDEServer.compressed_summary
    to_keep,              \* _compress_context_if_needed's local, per connection
    message_count,        \* messages made so far: the source of timestamps
    remaining,            \* the part of the answer the backend has yet to send
    current_response,     \* the locals of the token loop of one stream
    display_buffer,
    tool_block_buffer,
    in_tool_block,
    tool_detected,
    stream_state,         \* "tokens", or how the token loop was left
    forwarded,            \* positions of the answer that token events carried
    token_text,           \* what the token events of the stream carried, in order
    exec_call,            \* the last direct call of ToolExecutor.execute
    all_lines,            \* the file the read_file tool reads: its lines' lengths
    read_result,          \* what the last read_file call returned
    shown,                \* the line numbers a chain of read_file calls returned
    file_index,           \* SearchEngine._file_index, with the files' lines
    search_cache,         \* SearchEngine._search_cache, oldest entry first
    search_result,        \* the last search(): its arguments and what it returned
    client_pc,            \* where StreamClient.stream is
    attempt,              \* the attempt of the retry loop that runs, from 0
    posts,                \* the requests stream() has made
    client_cancelled,     \* StreamClient._cancelled
    slept,                \* the waits of stream(), in milliseconds, in order
    raised,               \* the exceptions the attempts raised, in order
    status,               \* the status of the result, once stream() returned
    wire,                 \* the raw chunks the response has yet to give
    sse_buffer,           \* _do_stream's buffer: the events not yet parsed
    full_content,         \* _do_stream's full_content
    on_chunk,             \* the contents passed to on_chunk, in order
    done_parsed           \* the content delivered when the attempt parsed [DONE]

handlervars == <<pending_tool_confirmations, pending_loop_context,
                 abort_requested, pc, cancelled, iteration, exploration_count,
                 max_iterations, resumed, confirm_count, last_run, requested,
                 runs, sent, received, parked, conversation_history,
                 compressed_summary, to_keep, message_count>>
\* The history variables: no action of the handler or of the loop reads
\* them; the specifications that follow them say how they change.
historyvars == <<received, parked>>
\* The conversation: the specifications that do not follow it leave it as
\* it is.
convvars == <<conversation_history, compressed_summary, to_keep, message_count>>
streamvars == <<remaining, current_response, display_buffer, tool_block_buffer,
                in_tool_block, tool_detected, stream_state, forwarded,
                token_text>>
execvars == <<exec_call>>
readvars == <<all_lines, read_result, shown>>
searchvars == <<file_index, search_cache, search_result>>
clientvars == <<client_pc, attempt, posts, client_cancelled, slept, raised,
                status, wire, sse_buffer, full_content, on_chunk, done_parsed>>
toolvars == <<execvars, readvars, searchvars, clientvars>>
loopvars == <<handlervars, streamvars, toolvars>>
txvars == <<fs, current_transaction, undo_stack, redo_stack, total_bytes,
            max_stack, max_bytes, tx_count, staged_count>>
obsvars == <<last_result, replay, live, undone>>

\* Program constants of code_tools.py.  MAX_UNDO_BYTES is 3 GiB in the code,
\* more than the largest integer TLC holds; it stands here as that largest
\* integer, which no run of SpecTx comes near either.
MAX_UNDO_STACK == 1000
MAX_UNDO_BYTES == 2147483647
\* Transaction ids are the first 8 hex digits of an md5.
IdLen == 8

NoTx == [id |-> 0, description |-> "", changes |-> <<>>, status |-> "none"]

Transaction(id, description) ==
    [id |-> id, description |-> description, changes |-> <<>>, status |-> "pending"]

(***************************************************************************)
(* UndoManager, on um = [undo_stack, redo_stack, total_bytes].             *)
(***************************************************************************)
UM == [undo_stack |-> undo_stack, redo_stack |-> redo_stack,
       total_bytes |-> total_bytes]

ContentLen(c) == IF c = None THEN 0 ELSE Len(c)

RECURSIVE ChangesSize(_)
ChangesSize(changes) ==
    IF changes = <<>> THEN 0
    ELSE Len(Head(changes).file_path) + ContentLen(Head(changes).old_content)
         + ContentLen(Head(changes).new_content) + ChangesSize(Tail(changes))

calculate_size(tx) == IdLen + Len(tx.description) + ChangesSize(tx.changes)

PopOldest(um) ==
    [um EXCEPT !.undo_stack = Tail(@),
               !.total_bytes = @ - calculate_size(Head(um.undo_stack))]

RECURSIVE EvictBytes(_, _, _)
EvictBytes(um, tx_bytes, mb) ==
    IF um.total_bytes + tx_bytes > mb /\ um.undo_stack # <<>>
    THEN EvictBytes(PopOldest(um), tx_bytes, mb)
    ELSE um

\* A push that keeps the redo stack.
UndoManager_push_keeping_redo(um, tx, ms, mb) ==
    [undo_stack |-> Append(um.undo_stack, tx),
     redo_stack |-> um.redo_stack,
     total_bytes |-> um.total_bytes + calculate_size(tx)]

UndoManager_push(um, tx, ms, mb) ==
    LET tx_bytes == calculate_size(tx)
        u1 == EvictBytes(um, tx_bytes, mb)
        u2 == IF Len(u1.undo_stack) >= ms THEN PopOldest(u1) ELSE u1
    IN [undo_stack |-> Append(u2.undo_stack, tx),
        redo_stack |-> <<>>,
        total_bytes |-> u2.total_bytes + tx_bytes]

\* undo and redo give the manager they leave and the transaction returned.
UndoManager_undo(um) ==
    IF um.undo_stack = <<>> THEN [um |-> um, tx |-> NoTx]
    ELSE LET tx == um.undo_stack[Len(um.undo_stack)] IN
         [um |-> [undo_stack |-> SubSeq(um.undo_stack, 1, Len(um.undo_stack) - 1),
                  redo_stack |-> Append(um.redo_stack, tx),
                  total_bytes |-> um.total_bytes - calculate_size(tx)],
          tx |-> tx]

UndoManager_redo(um) ==
    IF um.redo_stack = <<>> THEN [um |-> um, tx |-> NoTx]
    ELSE LET tx == um.redo_stack[Len(um.redo_stack)] IN
         [um |-> [undo_stack |-> Append(um.undo_stack, tx),
                  redo_stack |-> SubSeq(um.redo_stack, 1, Len(um.redo_stack) - 1),
                  total_bytes |-> um.total_bytes + calculate_size(tx)],
          tx |-> tx]

UndoManager_clear(um) ==
    [undo_stack |-> <<>>, redo_stack |-> <<>>, total_bytes |-> 0]

(***************************************************************************)
(* TransactionManager._apply_change and _revert_change.                    *)
(***************************************************************************)
apply_change(f, change) ==
    CASE change.operation = "create" ->
            write_file(f, change.file_path, change.new_content)
      [] change.operation = "modify" ->
            write_file(f, change.file_path, change.new_content)
      [] change.operation = "delete" ->
            delete_file(f, change.file_path)
      [] change.operation = "rename" ->
            rename_file(f, change.file_path, change.new_path)

revert_change(f, change) ==
    CASE change.operation = "create" ->
            delete_file(f, change.file_path)
      [] change.operation \in {"modify", "delete"} ->
            IF change.old_content # None
            THEN write_file(f, change.file_path, change.old_content)
            ELSE [success |-> FALSE, fs |-> f, raised |-> FALSE]
      [] change.operation = "rename" ->
            rename_file(f, change.new_path, change.file_path)

\* The loop of commit: every change is applied, in order, whatever the
\* changes before it did; each gets the status of its own outcome.  An
\* exception leaves the loop, and commit, at the change that raised it.
RECURSIVE ApplyLoop(_, _, _)
ApplyLoop(f, changes, i) ==
    IF i > Len(changes)
    THEN [fs |-> f, changes |-> changes, errors |-> 0, raised |-> FALSE]
    ELSE LET r == apply_change(f, changes[i]) IN
         IF r.raised
         THEN [fs |-> f, changes |-> changes, errors |-> 0, raised |-> TRUE]
         ELSE LET rest == ApplyLoop(r.fs,
                                    [changes EXCEPT ![i].status =
                                        IF r.success THEN "applied" ELSE "failed"],
                                    i + 1)
              IN [rest EXCEPT !.errors = @ + (IF r.success THEN 0 ELSE 1)]

\* The loop of redo: every change is applied again and marked applied, its
\* outcome ignored; an exception leaves the loop.
RECURSIVE RedoLoop(_, _, _)
RedoLoop(f, changes, i) ==
    IF i > Len(changes) THEN [fs |-> f, changes |-> changes, raised |-> FALSE]
    ELSE LET r == apply_change(f, changes[i]) IN
         IF r.raised THEN [fs |-> f, changes |-> changes, raised |-> TRUE]
         ELSE RedoLoop(r.fs, [changes EXCEPT ![i].status = "applied"], i + 1)

\* The loop of undo: the changes are reverted last to first and marked
\* undone, outcomes ignored; an exception leaves the loop.
RECURSIVE RevertLoop(_, _, _)
RevertLoop(f, changes, i) ==
    IF i < 1 THEN [fs |-> f, changes |-> changes, raised |-> FALSE]
    ELSE LET r == revert_change(f, changes[i]) IN
         IF r.raised THEN [fs |-> f, changes |-> changes, raised |-> TRUE]
         ELSE RevertLoop(r.fs, [changes EXCEPT ![i].status = "undone"], i - 1)

(***************************************************************************)
(* What the properties read beside the program's state.  last_result is    *)
(* what the last call returned or raised.  replay follows a run of n       *)
(* commits in a row, then k undos, then j redos, and keeps the workspace   *)
(* as the last of those commits left it, and how many undone transactions  *)
(* that commit found on the redo stack.  live and undone follow the        *)
(* discipline the stacks are meant to keep: the last committed is the      *)
(* first undone, the last undone is the first redone.                      *)
(***************************************************************************)
NoReplay == [n |-> 0, k |-> 0, j |-> 0, fs_top |-> <<>>, dropped |-> 0]

Last(s) == s[Len(s)]
Front(s) == SubSeq(s, 1, Len(s) - 1)
Ids(stack) == [i \in 1..Len(stack) |-> stack[i].id]

\* A commit that applied: one more of a run of commits, or the first of one.
Committed(id, f) ==
    /\ replay' = [n |-> IF replay.k = 0 THEN replay.n + 1 ELSE 1,
                  k |-> 0, j |-> 0, fs_top |-> f, dropped |-> Len(redo_stack)]
    /\ live' = Append(live, id)
    /\ undone' = <<>>

\* The transaction object is shared by the stacks and the caller: a status
\* set on it shows wherever it is held.
Shared(stack, tx) ==
    [i \in 1..Len(stack) |-> IF stack[i].id = tx.id THEN tx ELSE stack[i]]

(***************************************************************************)
(* TransactionManager.                                                     *)
(***************************************************************************)
begin(description) ==
    \/ /\ current_transaction # NoTx
       /\ last_result' = "RuntimeError"
       /\ UNCHANGED <<txvars, replay, live, undone, loopvars>>
    \/ /\ current_transaction = NoTx
       /\ tx_count < MaxTx
       /\ current_transaction' = Transaction(tx_count + 1, description)
       /\ tx_count' = tx_count + 1
       /\ last_result' = "ok"
       /\ UNCHANGED <<fs, undo_stack, redo_stack, total_bytes, max_stack,
                      max_bytes, staged_count, replay, live, undone, loopvars>>

\* edit, write, delete and rename: the change is built from the files as
\* they are now, and added when a transaction is open.
Stage(change) ==
    /\ staged_count < MaxStaged
    /\ IF current_transaction # NoTx
       THEN /\ current_transaction' =
                   [current_transaction EXCEPT !.changes = Append(@, change)]
            /\ staged_count' = staged_count + 1
       ELSE UNCHANGED <<current_transaction, staged_count>>
    /\ last_result' = "ok"
    /\ UNCHANGED <<fs, undo_stack, redo_stack, total_bytes, max_stack,
                   max_bytes, tx_count, replay, live, undone, loopvars>>

edit(p, old_string, new_string, replace_all) ==
    Stage(CodeEditor_edit(fs, p, old_string, new_string, replace_all))

write(p, content) == Stage(CodeEditor_write(fs, p, content))

delete(p) == Stage(CodeEditor_delete(fs, p))

rename(old_path, new_path) == Stage(CodeEditor_rename(old_path, new_path))

\* What commit does to an open transaction tx: the workspace, the manager
\* and the transaction it leaves, and whether it raised.
CommitOf(tx, f, um, ms, mb) ==
    LET r == ApplyLoop(f, tx.changes, 1)
        done == [tx EXCEPT !.changes = r.changes,
                           !.status = IF r.errors = 0 THEN "applied" ELSE "failed"]
    IN IF r.raised
       THEN [fs |-> r.fs, um |-> um, tx |-> [tx EXCEPT !.changes = r.changes],
             raised |-> TRUE]
       ELSE [fs |-> r.fs,
             um |-> IF r.errors = 0 THEN UndoManager_push(um, done, ms, mb) ELSE um,
             tx |-> done, raised |-> FALSE]

commit(dry_run) ==
    \/ /\ current_transaction = NoTx
       /\ last_result' = "RuntimeError"
       /\ UNCHANGED <<txvars, replay, live, undone, loopvars>>
    \/ /\ current_transaction # NoTx
       /\ dry_run
       /\ current_transaction' = NoTx
       /\ last_result' = "ok"
       /\ UNCHANGED <<fs, undo_stack, redo_stack, total_bytes, max_stack,
                      max_bytes, tx_count, staged_count, replay, live, undone,
                      loopvars>>
    \/ /\ current_transaction # NoTx
       /\ ~dry_run
       /\ LET c == CommitOf(current_transaction, fs, UM, max_stack, max_bytes) IN
          /\ fs' = c.fs
          /\ undo_stack' = c.um.undo_stack
          /\ redo_stack' = c.um.redo_stack
          /\ total_bytes' = c.um.total_bytes
          /\ last_result' = IF c.raised THEN "ValueError" ELSE c.tx.status
          /\ current_transaction' = IF c.raised THEN c.tx ELSE NoTx
          /\ IF c.tx.status = "applied"
             THEN Committed(c.tx.id, c.fs)
             ELSE /\ replay' = NoReplay
                  /\ UNCHANGED <<live, undone>>
       /\ UNCHANGED <<max_stack, max_bytes, tx_count, staged_count, loopvars>>

rollback ==
    /\ current_transaction' = NoTx
    /\ last_result' = "ok"
    /\ UNCHANGED <<fs, undo_stack, redo_stack, total_bytes, max_stack,
                   max_bytes, tx_count, staged_count, replay, live, undone,
                   loopvars>>

undo ==
    LET u == UndoManager_undo(UM) IN
    \/ /\ u.tx = NoTx
       /\ last_result' = "None"
       /\ replay' = NoReplay
       /\ UNCHANGED <<txvars, live, undone, loopvars>>
    \/ /\ u.tx # NoTx
       /\ LET r == RevertLoop(fs, u.tx.changes, Len(u.tx.changes))
              tx == [u.tx EXCEPT !.changes = r.changes,
                                 !.status = IF r.raised THEN @ ELSE "undone"] IN
          /\ fs' = r.fs
          /\ undo_stack' = Shared(u.um.undo_stack, tx)
          /\ redo_stack' = Shared(u.um.redo_stack, tx)
          /\ total_bytes' = u.um.total_bytes
          /\ last_result' = IF r.raised THEN "ValueError" ELSE "ok"
          /\ replay' = IF ~r.raised /\ replay.j = 0 /\ replay.k < replay.n
                       THEN [replay EXCEPT !.k = @ + 1] ELSE NoReplay
       /\ live' = IF live = <<>> THEN live ELSE Front(live)
       /\ undone' = IF live = <<>> THEN undone ELSE Append(undone, Last(live))
       /\ UNCHANGED <<current_transaction, max_stack, max_bytes, tx_count,
                      staged_count, loopvars>>

redo ==
    LET u == UndoManager_redo(UM) IN
    \/ /\ u.tx = NoTx
       /\ last_result' = "None"
       /\ replay' = NoReplay
       /\ UNCHANGED <<txvars, live, undone, loopvars>>
    \/ /\ u.tx # NoTx
       /\ LET r == RedoLoop(fs, u.tx.changes, 1)
              tx == [u.tx EXCEPT !.changes = r.changes,
                                 !.status = IF r.raised THEN @ ELSE "applied"] IN
          /\ fs' = r.fs
          /\ undo_stack' = Shared(u.um.undo_stack, tx)
          /\ redo_stack' = Shared(u.um.redo_stack, tx)
          /\ total_bytes' = u.um.total_bytes
          /\ last_result' = IF r.raised THEN "ValueError" ELSE "ok"
          /\ replay' = IF ~r.raised /\ replay.j < replay.k
                       THEN [replay EXCEPT !.j = @ + 1] ELSE NoReplay
       /\ undone' = IF undone = <<>> THEN undone ELSE Front(undone)
       /\ live' = IF undone = <<>> THEN live ELSE Append(live, Last(undone))
       /\ UNCHANGED <<current_transaction, max_stack, max_bytes, tx_count,
                      staged_count, loopvars>>

(***************************************************************************)
(* The multi_edit tool of ToolExecutor.execute.  The whole call is one     *)
(* step: nothing else runs between its begin and its commit or rollback.   *)
(***************************************************************************)
EditInputs(f) == [file_path : Paths(f), old_text : OldStrings, new_text : NewStrings]
EditLists(f) == UNION {[1..n -> EditInputs(f)] : n \in 0..MaxEdits}

\* An entry of edits that is not an object, such as a string: edit.get
\* raises AttributeError on it, outside the try of the loop.
NotAnEdit == [is_dict |-> FALSE]
IsEdit(e) == "file_path" \in DOMAIN e
EntryLists(f) ==
    UNION {[1..n -> EditInputs(f) \cup {NotAnEdit}] : n \in 0..MaxEdits}

\* The first entry of edits the loop cannot read, or 0.
FirstBad(edits) ==
    IF \A i \in 1..Len(edits) : IsEdit(edits[i]) THEN 0
    ELSE CHOOSE i \in 1..Len(edits) :
            /\ ~IsEdit(edits[i])
            /\ \A j \in 1..(i - 1) : IsEdit(edits[j])

\* The loop over the edits: each is read from the file as it is on disk and
\* staged as a write of the whole new content, or counted as a failure.
RECURSIVE MultiEditLoop(_, _, _)
MultiEditLoop(f, edits, i) ==
    IF i > Len(edits) THEN [changes |-> <<>>, fail_count |-> 0]
    ELSE LET e == edits[i]
             rest == MultiEditLoop(f, edits, i + 1)
         IN IF ~Exists(f, e.file_path)
            THEN [rest EXCEPT !.fail_count = @ + 1]
            ELSE IF ~Contains(f[e.file_path], e.old_text)
            THEN [rest EXCEPT !.fail_count = @ + 1]
            ELSE [rest EXCEPT !.changes =
                     <<CodeEditor_write(f, e.file_path,
                          ReplaceOnce(f[e.file_path], e.old_text, e.new_text))>> \o @]

multi_edit(edits, description) ==
    \/ /\ edits = <<>>
       /\ last_result' = "failure"
       /\ UNCHANGED <<txvars, replay, live, undone, loopvars>>
    \/ /\ edits # <<>>
       /\ current_transaction # NoTx
       /\ last_result' = "failure"
       /\ UNCHANGED <<txvars, replay, live, undone, loopvars>>
    \/ /\ edits # <<>>
       /\ current_transaction = NoTx
       /\ tx_count < MaxTx
       /\ FirstBad(edits) # 0
       /\ LET m == MultiEditLoop(fs, SubSeq(edits, 1, FirstBad(edits) - 1), 1)
          IN current_transaction' =
                [Transaction(tx_count + 1, description) EXCEPT !.changes = m.changes]
       /\ tx_count' = tx_count + 1
       /\ last_result' = "failure"
       /\ UNCHANGED <<fs, undo_stack, redo_stack, total_bytes, max_stack,
                      max_bytes, staged_count, replay, live, undone, loopvars>>
    \/ /\ edits # <<>>
       /\ current_transaction = NoTx
       /\ tx_count < MaxTx
       /\ FirstBad(edits) = 0
       /\ LET m == MultiEditLoop(fs, edits, 1)
              tx == [Transaction(tx_count + 1, description) EXCEPT !.changes = m.changes]
              c == CommitOf(tx, fs, UM, max_stack, max_bytes)
          IN IF m.fail_count = 0
             THEN /\ fs' = c.fs
                  /\ undo_stack' = c.um.undo_stack
                  /\ redo_stack' = c.um.redo_stack
                  /\ total_bytes' = c.um.total_bytes
                  /\ last_result' = IF c.raised THEN "failure" ELSE "success"
                  /\ current_transaction' = IF c.raised THEN c.tx ELSE NoTx
                  /\ IF c.tx.status = "applied"
                     THEN Committed(c.tx.id, c.fs)
                     ELSE /\ replay' = NoReplay
                          /\ UNCHANGED <<live, undone>>
             ELSE /\ last_result' = "failure"
                  /\ current_transaction' = NoTx
                  /\ UNCHANGED <<fs, undo_stack, redo_stack, total_bytes,
                                 replay, live, undone>>
       /\ tx_count' = tx_count + 1
       /\ UNCHANGED <<max_stack, max_bytes, staged_count, loopvars>>

(***************************************************************************)
(* UndoManager on its own: push, undo, redo and clear of an UndoManager    *)
(* built with small caps.                                                  *)
(***************************************************************************)
SmallStack == 2     \* a max_stack the runs can fill
SmallBytes == 20    \* a max_bytes the runs can fill
MaxPush == 3        \* pushes in one run

\* Transactions of 8, 10 and 8 + 14 bytes.
PushDescriptions == {"", "tx", "a longer title"}

push(tx) ==
    /\ tx_count < MaxPush
    /\ LET um == UndoManager_push(UM, tx, max_stack, max_bytes) IN
       /\ undo_stack' = um.undo_stack
       /\ redo_stack' = um.redo_stack
       /\ total_bytes' = um.total_bytes
    /\ tx_count' = tx_count + 1
    /\ last_result' = "ok"
    /\ UNCHANGED <<fs, current_transaction, max_stack, max_bytes, staged_count,
                   replay, live, undone, loopvars>>

\* UndoManager.undo and UndoManager.redo, as a caller of the manager sees them.
pop_undo ==
    LET u == UndoManager_undo(UM) IN
    /\ undo_stack' = u.um.undo_stack
    /\ redo_stack' = u.um.redo_stack
    /\ total_bytes' = u.um.total_bytes
    /\ last_result' = IF u.tx = NoTx THEN "None" ELSE "ok"
    /\ UNCHANGED <<fs, current_transaction, max_stack, max_bytes, tx_count,
                   staged_count, replay, live, undone, loopvars>>

pop_redo ==
    LET u == UndoManager_redo(UM) IN
    /\ undo_stack' = u.um.undo_stack
    /\ redo_stack' = u.um.redo_stack
    /\ total_bytes' = u.um.total_bytes
    /\ last_result' = IF u.tx = NoTx THEN "None" ELSE "ok"
    /\ UNCHANGED <<fs, current_transaction, max_stack, max_bytes, tx_count,
                   staged_count, replay, live, undone, loopvars>>

clear ==
    LET um == UndoManager_clear(UM) IN
    /\ undo_stack' = um.undo_stack
    /\ redo_stack' = um.redo_stack
    /\ total_bytes' = um.total_bytes
    /\ last_result' = "ok"
    /\ UNCHANGED <<fs, current_transaction, max_stack, max_bytes, tx_count,
                   staged_count, replay, live, undone, loopvars>>

(***************************************************************************)
(* The WebSocket handler websocket_chat and _run_agentic_loop.  Each       *)
(* connection has its own handler; a handler reads its next message only   *)
(* when the loop it started has returned.  The handlers of different       *)
(* connections interleave at the awaits, and share the IDEServer.          *)
(***************************************************************************)
Conns == {1, 2}

ChatIterations == 3   \* max_iterations of a chat's loop: 99 in the code
MaxExploration == 1   \* max_exploration: 20 in the code
MaxConfirm == 2       \* confirmation ids made in one run

ConfirmTools == {"write_file", "edit_file", "bash"}
exploration_tools == {"list_dir", "read_file", "search_code"}
\* The tools a model's answer names here: two that need confirmation, an
\* exploration tool, and two of the others.
ToolNames == {"write_file", "edit_file", "read_file", "grep", "multi_edit"}

\* A tool_input: the keys that read_file, write_file and edit_file read in
\* text mode, the set of the keys the input holds, and whether the JSON of
\* the tool block is an object at all: json.loads also gives lists, strings
\* and numbers.
NoInput == [file_path |-> "", content |-> <<>>, old_text |-> <<>>,
            new_text |-> <<>>, keys |-> {}, is_dict |-> TRUE]
NotADict == [NoInput EXCEPT !.is_dict = FALSE]
ToolInputs(tool_name) ==
    IF tool_name = "write_file"
    THEN {[NoInput EXCEPT !.file_path = "b", !.content = <<2>>,
                          !.keys = {"file_path", "content"}]}
    ELSE IF tool_name = "edit_file"
    THEN {[NoInput EXCEPT !.file_path = "a", !.old_text = <<1>>, !.new_text = <<2>>,
                          !.keys = {"file_path", "old_text", "new_text"}]}
    ELSE IF tool_name = "read_file"
    THEN {[NoInput EXCEPT !.file_path = "a", !.keys = {"file_path"}]}
    ELSE IF tool_name = "grep"
    THEN {NoInput, NotADict}
    ELSE {NoInput}

\* tool_input.get(key, default).
Get(tool_input, key, default) ==
    IF key \in tool_input.keys THEN tool_input[key] ELSE default

\* The names ToolExecutor.execute has a branch for, as far as they are named
\* here; any other name reaches the last else.
KnownTools == {"bash", "read_file", "write_file", "edit_file", "list_dir",
               "search_code", "grep", "multi_edit"}

\* ToolExecutor.execute for read_file, write_file and edit_file in its text
\* mode.  The path is joined to the workspace and opened as it is: an
\* absolute path names the file outside.  With no file_path the joined path
\* is the workspace directory, which exists, is no file, and cannot be opened
\* for writing.  The other tools leave the files of the workspace as they
\* are here, and are taken to succeed; an unknown name fails.  Every branch
\* starts with tool_input.get, which an input that is no dict does not
\* have: the AttributeError is caught by the except of execute.
execute(f, tool_name, tool_input) ==
    LET p == Get(tool_input, "file_path", "")
        content == Get(tool_input, "content", <<>>)
        old_text == Get(tool_input, "old_text", <<>>)
        new_text == Get(tool_input, "new_text", <<>>)
        is_file == p \in DOMAIN f /\ Exists(f, p)
        failure == [fs |-> f, success |-> FALSE]
    IN
    IF ~tool_input.is_dict
    THEN failure
    ELSE IF tool_name = "read_file"
    THEN IF is_file THEN [fs |-> f, success |-> TRUE] ELSE failure
    ELSE IF tool_name = "write_file"
    THEN IF p \notin DOMAIN f THEN failure
         ELSE [fs |-> [f EXCEPT ![p] = content], success |-> TRUE]
    ELSE IF tool_name = "edit_file"
    THEN IF ~is_file THEN failure
         ELSE IF old_text # <<>>
         THEN IF ~Contains(f[p], old_text)
              THEN failure
              ELSE [fs |-> [f EXCEPT ![p] = ReplaceOnce(@, old_text, new_text)],
                    success |-> TRUE]
         ELSE failure
    ELSE IF tool_name \in KnownTools
    THEN [fs |-> f, success |-> TRUE]
    ELSE failure

NoCall == [tool_name |-> "", tool_input |-> NoInput, success |-> FALSE]

NoRun == [tool |-> "", by |-> ""]

\* No tool_confirm message was taken by the last step.
NoMessage == [id |-> 0, approved |-> FALSE, known |-> FALSE]

\* An event sent to the UI of connection c.
Event(c, type, detail) == [to |-> c, type |-> type, detail |-> detail]
ToolResult(c, success) ==
    Event(c, "tool_result", IF success THEN "success" ELSE "failure")

\* The loop returns to the handler, which waits for its next message; a
\* handler that resumed the loop from tool_confirm then deletes the context.
Return(c) ==
    /\ pc' = [pc EXCEPT ![c] = "receive"]
    /\ iteration' = [iteration EXCEPT ![c] = 0]
    /\ exploration_count' = [exploration_count EXCEPT ![c] = 0]
    /\ max_iterations' = [max_iterations EXCEPT ![c] = 0]
    /\ resumed' = [resumed EXCEPT ![c] = FALSE]
    /\ runs' = [runs EXCEPT ![c] = <<>>]
    /\ pending_loop_context' = IF resumed[c] THEN FALSE ELSE pending_loop_context

\* The first lines of _run_agentic_loop.
Enter(c, limit, from_confirm) ==
    /\ pc' = [pc EXCEPT ![c] = "loop"]
    /\ iteration' = [iteration EXCEPT ![c] = 0]
    /\ exploration_count' = [exploration_count EXCEPT ![c] = 0]
    /\ max_iterations' = [max_iterations EXCEPT ![c] = limit]
    /\ resumed' = [resumed EXCEPT ![c] = from_confirm]
    /\ runs' = [runs EXCEPT ![c] = <<>>]
    /\ abort_requested' = FALSE

receive_cancel(c) ==
    /\ pc[c] = "receive"
    /\ cancelled' = [cancelled EXCEPT ![c] = TRUE]
    /\ sent' = <<Event(c, "cancelled", "")>>
    /\ UNCHANGED <<pending_tool_confirmations, pending_loop_context,
                   abort_requested, pc, iteration, exploration_count,
                   max_iterations, resumed, confirm_count, last_run, requested,
                   runs, streamvars, txvars, obsvars, toolvars>>

\* tool_confirm, approved: the tool is executed and its result sent.  The
\* loop is resumed if a context was saved, with the context's 'stream'
\* entry, False by default, as max_iterations.
approve(c, tool_info) ==
    LET r == execute(fs, tool_info.tool_name, tool_info.tool_input) IN
    /\ fs' = r.fs
    /\ last_run' = [tool |-> tool_info.tool_name, by |-> "confirm"]
    /\ sent' = <<ToolResult(c, r.success)>> \o
               IF tool_info.tool_name \in {"edit_file", "write_file"} /\ r.success
               THEN <<Event(c, "file_modified", "")>> ELSE <<>>
    /\ IF pending_loop_context
       THEN /\ Enter(c, 0, TRUE)
            /\ UNCHANGED pending_loop_context
       ELSE UNCHANGED <<pending_loop_context, abort_requested, pc, iteration,
                        exploration_count, max_iterations, resumed, runs>>

\* A reject that runs the tool.
reject_running_tool(c, tool_info) ==
    /\ approve(c, tool_info)

\* A reject that sends the result and no done.
reject_without_done(c, tool_info) ==
    /\ sent' = <<Event(c, "tool_result", "rejected")>>
    /\ pending_loop_context' = FALSE
    /\ UNCHANGED <<fs, last_run, abort_requested, pc, iteration,
                   exploration_count, max_iterations, resumed, runs>>

\* tool_confirm, not approved: the rejection is sent as the result, then
\* done, and the saved context is dropped.
reject(c, tool_info) ==
    /\ sent' = <<Event(c, "tool_result", "rejected"), Event(c, "done", "rejected")>>
    /\ pending_loop_context' = FALSE
    /\ UNCHANGED <<fs, last_run, abort_requested, pc, iteration,
                   exploration_count, max_iterations, resumed, runs>>

\* A tool_confirm that reads the entry and leaves it registered.
receive_tool_confirm_keeping(c, confirmation_id, approved) ==
    /\ pc[c] = "receive"
    /\ IF confirmation_id \in DOMAIN pending_tool_confirmations
       THEN /\ UNCHANGED pending_tool_confirmations
            /\ IF approved
               THEN approve(c, pending_tool_confirmations[confirmation_id])
               ELSE reject(c, pending_tool_confirmations[confirmation_id])
       ELSE /\ sent' = <<>>
            /\ UNCHANGED <<fs, pending_tool_confirmations, pending_loop_context,
                           abort_requested, pc, iteration, exploration_count,
                           max_iterations, resumed, last_run, runs>>
    /\ UNCHANGED <<cancelled, confirm_count, requested, streamvars,
                   current_transaction, undo_stack, redo_stack, total_bytes,
                   max_stack, max_bytes, tx_count, staged_count, obsvars, toolvars>>

receive_tool_confirm(c, confirmation_id, approved) ==
    /\ pc[c] = "receive"
    /\ IF confirmation_id \in DOMAIN pending_tool_confirmations
       THEN /\ pending_tool_confirmations' =
                  [i \in DOMAIN pending_tool_confirmations \ {confirmation_id}
                     |-> pending_tool_confirmations[i]]
            /\ IF approved
               THEN approve(c, pending_tool_confirmations[confirmation_id])
               ELSE reject(c, pending_tool_confirmations[confirmation_id])
       ELSE /\ sent' = <<>>
            /\ UNCHANGED <<fs, pending_tool_confirmations, pending_loop_context,
                           abort_requested, pc, iteration, exploration_count,
                           max_iterations, resumed, last_run, runs>>
    /\ UNCHANGED <<cancelled, confirm_count, requested, streamvars,
                   current_transaction, undo_stack, redo_stack, total_bytes,
                   max_stack, max_bytes, tx_count, staged_count, obsvars, toolvars>>

receive_chat(c) ==
    /\ pc[c] = "receive"
    /\ cancelled' = [cancelled EXCEPT ![c] = FALSE]
    /\ sent' = <<>>
    /\ Enter(c, ChatIterations, FALSE)
    /\ UNCHANGED <<pending_tool_confirmations, pending_loop_context,
                   confirm_count, last_run, requested, streamvars, txvars,
                   obsvars, toolvars>>

\* The head of the while loop: the iteration cap, then the abort flag, then
\* the next request to the model.  Leaving the while loop, by the cap or by
\* the break of the abort check, reaches the done event below the loop.
loop_top(c) ==
    /\ pc[c] = "loop"
    /\ \/ /\ iteration[c] >= max_iterations[c]
          /\ sent' = <<Event(c, "done", "max_iterations")>>
          /\ Return(c)
          /\ UNCHANGED abort_requested
       \/ /\ iteration[c] < max_iterations[c]
          /\ abort_requested
          /\ abort_requested' = FALSE
          /\ sent' = <<Event(c, "done", "max_iterations")>>
          /\ Return(c)
       \/ /\ iteration[c] < max_iterations[c]
          /\ ~abort_requested
          /\ iteration' = [iteration EXCEPT ![c] = @ + 1]
          /\ pc' = [pc EXCEPT ![c] = "stream"]
          /\ sent' = <<>>
          /\ UNCHANGED <<abort_requested, exploration_count, max_iterations,
                         resumed, runs, pending_loop_context>>
    /\ UNCHANGED <<pending_tool_confirmations, cancelled, confirm_count,
                   last_run, requested, streamvars, txvars, obsvars, toolvars>>

\* The stream fails: an error event, and the loop returns.
stream_error(c) ==
    /\ pc[c] = "stream"
    /\ sent' = <<Event(c, "error", "stream")>>
    /\ Return(c)
    /\ UNCHANGED <<pending_tool_confirmations, abort_requested, cancelled,
                   confirm_count, last_run, requested, streamvars, txvars,
                   obsvars, toolvars>>

\* A stream_done that sends the tokens and no done event.
stream_done_silent(c) ==
    /\ pc[c] = "stream"
    /\ sent' = <<Event(c, "token", "prose")>>
    /\ Return(c)
    /\ UNCHANGED <<pending_tool_confirmations, abort_requested, cancelled,
                   confirm_count, last_run, requested, streamvars, txvars,
                   obsvars, toolvars>>

\* The stream ends and names no tool: its tokens were forwarded, a done
\* event carries the reply, and the loop returns.
stream_done(c) ==
    /\ pc[c] = "stream"
    /\ sent' = <<Event(c, "token", "prose"), Event(c, "done", "reply")>>
    /\ Return(c)
    /\ UNCHANGED <<pending_tool_confirmations, abort_requested, cancelled,
                   confirm_count, last_run, requested, streamvars, txvars,
                   obsvars, toolvars>>

\* A budget check that lets one more call through.
OverBudget_late(count) == count > MaxExploration + 1

\* Whether the exploration counter, already incremented, is over the budget.
OverBudget(count) == count > MaxExploration

\* What the UI gets from a stream of prose followed by a tool block that the
\* token loop parses.
Detected(c) == <<Event(c, "token", "prose"), Event(c, "tool_detected", "")>>

\* The stream names a tool.  For a tool that needs confirmation the entry is
\* registered; building the loop context then reads the name `stream`,
\* which nothing binds, so the NameError is caught, an error event is sent
\* and the loop returns: no context is saved and no request is sent.  An
\* exploration tool over the budget is not executed: a note is sent and
\* the loop goes on.  Any other tool is executed, after the loop has read
\* the path with tool_input.get: for an input that is no dict this raises
\* before execute is called, an error event is sent and the loop returns.
tool_call(c, tool_name, tool_input) ==
    /\ pc[c] = "stream"
    /\ \/ /\ tool_name \in ConfirmTools
          /\ confirm_count < MaxConfirm
          /\ confirm_count' = confirm_count + 1
          /\ pending_tool_confirmations' =
                [i \in DOMAIN pending_tool_confirmations \cup {confirm_count + 1} |->
                    IF i = confirm_count + 1
                    THEN [tool_name |-> tool_name, tool_input |-> tool_input]
                    ELSE pending_tool_confirmations[i]]
          /\ sent' = Detected(c) \o <<Event(c, "error", "NameError")>>
          /\ Return(c)
          /\ UNCHANGED <<fs, last_run, requested>>
       \/ /\ tool_name \notin ConfirmTools
          /\ tool_name \in exploration_tools
          /\ OverBudget(exploration_count[c] + 1)
          /\ exploration_count' = [exploration_count EXCEPT ![c] = @ + 1]
          /\ sent' = Detected(c) \o <<Event(c, "token", "note")>>
          /\ pc' = [pc EXCEPT ![c] = "loop"]
          /\ UNCHANGED <<fs, pending_tool_confirmations, confirm_count, last_run,
                         requested, iteration, max_iterations, resumed, runs,
                         pending_loop_context>>
       \/ /\ tool_name \notin ConfirmTools
          /\ ~(tool_name \in exploration_tools
               /\ OverBudget(exploration_count[c] + 1))
          /\ ~tool_input.is_dict
          /\ sent' = Detected(c) \o <<Event(c, "tool_executing", ""),
                                     Event(c, "error", "AttributeError")>>
          /\ Return(c)
          /\ UNCHANGED <<fs, pending_tool_confirmations, confirm_count, last_run,
                         requested>>
       \/ /\ tool_name \notin ConfirmTools
          /\ ~(tool_name \in exploration_tools
               /\ OverBudget(exploration_count[c] + 1))
          /\ tool_input.is_dict
          /\ exploration_count' =
                IF tool_name \in exploration_tools
                THEN [exploration_count EXCEPT ![c] = @ + 1]
                ELSE exploration_count
          /\ LET r == execute(fs, tool_name, tool_input) IN
             /\ fs' = r.fs
             /\ sent' = Detected(c) \o <<Event(c, "tool_executing", ""),
                                        ToolResult(c, r.success)>>
          /\ last_run' = [tool |-> tool_name, by |-> "loop"]
          /\ runs' = [runs EXCEPT ![c] = Append(@, tool_name)]
          /\ pc' = [pc EXCEPT ![c] = "loop"]
          /\ UNCHANGED <<pending_tool_confirmations, confirm_count, requested,
                         iteration, max_iterations, resumed,
                         pending_loop_context>>
    /\ UNCHANGED <<abort_requested, cancelled, streamvars, current_transaction,
                   undo_stack, redo_stack, total_bytes, max_stack, max_bytes,
                   tx_count, staged_count, obsvars, toolvars>>

\* POST /api/abort.
abort_generation ==
    /\ abort_requested' = TRUE
    /\ sent' = <<>>
    /\ UNCHANGED <<pending_tool_confirmations, pending_loop_context, pc,
                   cancelled, iteration, exploration_count, max_iterations,
                   resumed, confirm_count, last_run, requested, runs,
                   streamvars, txvars, obsvars, toolvars>>

(***************************************************************************)
(* The chat message of websocket_chat with the conversation: the message   *)
(* is appended to conversation_history, _compress_context_if_needed asks   *)
(* the backend for a summary when the history is long, and the loop is     *)
(* entered.  A text is what _estimate_tokens reads of it: how many of its  *)
(* characters are Hangul syllables, and how many are not.                  *)
(***************************************************************************)
context_token_limit == 30000
KeepLast == 10

MaxMessages == 15   \* messages made in one run

EmptyText == [korean |-> 0, other |-> 0]
Short == [korean |-> 0, other |-> 4]
Long == [korean |-> 20000, other |-> 4]
Summary == [korean |-> 2, other |-> 0]

\* _estimate_tokens: int(korean_chars * 1.5 + other_chars * 0.25).
estimate_tokens(text) == (6 * text.korean + text.other) \div 4

\* bool(text) of a string.
Truthy(text) == text.korean + text.other > 0

\* A message of the history; the timestamp tells two messages apart.
Message(role, content, timestamp) ==
    [role |-> role, content |-> content, timestamp |-> timestamp]

RECURSIVE SumTokens(_)
SumTokens(history) ==
    IF history = <<>> THEN 0
    ELSE estimate_tokens(Head(history).content) + SumTokens(Tail(history))

\* _get_conversation_tokens.
get_conversation_tokens(history, summary) ==
    SumTokens(history) + IF Truthy(summary) THEN estimate_tokens(summary) ELSE 0

\* history[-n:].
LastOf(history, n) ==
    SubSeq(history, IF Len(history) > n THEN Len(history) - n + 1 ELSE 1,
           Len(history))

\* The f-string that puts the old summary and the new one under their
\* headings: seven Hangul syllables and ten other characters are added.
MergeSummaries(old, new) ==
    [korean |-> old.korean + new.korean + 7, other |-> old.other + new.other + 10]

\* What the request for a summary can end with: an exception (a refused
\* connection, a timeout), or a response with a status and a body, which is
\* a JSON object with or without the key content, another JSON value, or no
\* JSON.
Response(status_code, json, content) ==
    [raised |-> FALSE, status_code |-> status_code, json |-> json, content |-> content]
CompressAnswers ==
    {[raised |-> TRUE, status_code |-> 0, json |-> "none", content |-> EmptyText],
     Response(200, "object", Summary),
     Response(200, "object", EmptyText),
     Response(200, "object without content", EmptyText),
     Response(200, "array", EmptyText),
     Response(200, "none", EmptyText),
     Response(500, "object", Summary)}

\* A chat message: the handler appends it and calls
\* _compress_context_if_needed, which returns False at once when the tokens
\* are within the limit or the history has at most ten messages, so that the
\* loop is entered; otherwise it sets the last ten messages aside and awaits
\* the backend's answer.
chat(c, content) ==
    LET history == Append(conversation_history,
                          Message("user", content, message_count + 1))
        current_tokens == get_conversation_tokens(history, compressed_summary)
    IN
    /\ pc[c] = "receive"
    /\ message_count + 2 * Cardinality(Conns) <= MaxMessages
    /\ cancelled' = [cancelled EXCEPT ![c] = FALSE]
    /\ conversation_history' = history
    /\ message_count' = message_count + 1
    /\ sent' = <<>>
    /\ IF current_tokens <= context_token_limit \/ Len(history) <= KeepLast
       THEN /\ Enter(c, ChatIterations, FALSE)
            /\ UNCHANGED to_keep
       ELSE /\ pc' = [pc EXCEPT ![c] = "compress"]
            /\ to_keep' = [to_keep EXCEPT ![c] = LastOf(history, KeepLast)]
            /\ UNCHANGED <<iteration, exploration_count, max_iterations,
                           resumed, runs, abort_requested>>
    /\ UNCHANGED <<pending_tool_confirmations, pending_loop_context,
                   confirm_count, last_run, requested, compressed_summary,
                   historyvars, streamvars, txvars, obsvars, toolvars>>

\* A compress_answer that drops the summarised messages whatever the answer.
compress_answer_dropping(c, answer) ==
    LET summary == IF answer.json = "object" THEN answer.content ELSE EmptyText
        compressed == /\ ~answer.raised
                      /\ answer.status_code = 200
                      /\ answer.json \in {"object", "object without content"}
    IN
    /\ pc[c] = "compress"
    /\ conversation_history' = to_keep[c]
    /\ IF compressed
       THEN /\ compressed_summary' =
                  IF Truthy(compressed_summary)
                  THEN MergeSummaries(compressed_summary, summary)
                  ELSE summary
            /\ sent' = <<Event(c, "system", "compressed")>>
       ELSE /\ sent' = <<>>
            /\ UNCHANGED compressed_summary
    /\ to_keep' = [to_keep EXCEPT ![c] = <<>>]
    /\ Enter(c, ChatIterations, FALSE)
    /\ UNCHANGED <<pending_tool_confirmations, pending_loop_context, cancelled,
                   confirm_count, last_run, requested, message_count,
                   historyvars, streamvars, txvars, obsvars, toolvars>>

\* The request for the summary has ended.  On a 200 whose body is a JSON
\* object the summary is stored, after the old one if there is one, and the
\* history becomes the messages set aside; the handler then announces the
\* compression.  Anything else leaves both as they are.  The loop is entered
\* in every case.
compress_answer(c, answer) ==
    LET summary == IF answer.json = "object" THEN answer.content ELSE EmptyText
        compressed == /\ ~answer.raised
                      /\ answer.status_code = 200
                      /\ answer.json \in {"object", "object without content"}
    IN
    /\ pc[c] = "compress"
    /\ IF compressed
       THEN /\ compressed_summary' =
                  IF Truthy(compressed_summary)
                  THEN MergeSummaries(compressed_summary, summary)
                  ELSE summary
            /\ conversation_history' = to_keep[c]
            /\ sent' = <<Event(c, "system", "compressed")>>
       ELSE /\ sent' = <<>>
            /\ UNCHANGED <<compressed_summary, conversation_history>>
    /\ to_keep' = [to_keep EXCEPT ![c] = <<>>]
    /\ Enter(c, ChatIterations, FALSE)
    /\ UNCHANGED <<pending_tool_confirmations, pending_loop_context, cancelled,
                   confirm_count, last_run, requested, message_count,
                   historyvars, streamvars, txvars, obsvars, toolvars>>

\* The reply of a stream that names no tool is appended to the history when
\* the loop ends with it.
reply(c) ==
    /\ stream_done(c)
    /\ conversation_history' =
          Append(conversation_history, Message("assistant", Short, message_count + 1))
    /\ message_count' = message_count + 1
    /\ UNCHANGED <<compressed_summary, to_keep, historyvars>>

(***************************************************************************)
(* The token loop of one LLM stream in _run_agentic_loop.  A text is a     *)
(* sequence of pieces: "x" is prose, "[TOOL" and ":" together are the      *)
(* sentinel, "name]" a tool name and its bracket, "fence" the three        *)
(* backticks (with the json tag if it opens), "{}" a JSON document.  The   *)
(* backend cuts the answer into tokens wherever it likes between two       *)
(* pieces.  The answers hold no block of the other form the parsers take,  *)
(* the one that opens with a fence and "tool:".                            *)
(***************************************************************************)
Sentinel == <<"[TOOL", ":">>
Fence == "fence"
GoodBlock == Sentinel \o <<"name]", Fence, "{}", Fence>>
BadJsonBlock == Sentinel \o <<"name]", Fence, "x", Fence>>
LooseBlock == Sentinel \o <<"x", Fence, "x", Fence>>

\* The answers of the backend: prose or none, a block, and nothing, prose
\* or a well-formed block after it; and prose alone.
Responses ==
    {pre \o blk \o post : pre \in {<<>>, <<"x">>},
                          blk \in {GoodBlock, BadJsonBlock, LooseBlock},
                          post \in {<<>>, <<"x">>, GoodBlock}}
       \cup {<<"x", "x">>}

NoTool == [name |-> "", start |-> 0]

\* Where pat first starts in s, or 0.
RECURSIVE FirstFrom(_, _, _)
FirstFrom(s, pat, i) ==
    IF i > Len(s) THEN 0
    ELSE IF StartsAt(s, pat, i) THEN i ELSE FirstFrom(s, pat, i + 1)

\* s.split(pat)[0], and pat + s.split(pat, 1)[1], for s that holds pat.
BeforeFirst(s, pat) == SubSeq(s, 1, FirstFrom(s, pat, 1) - 1)
FromFirst(s, pat) == SubSeq(s, FirstFrom(s, pat, 1), Len(s))

\* The pattern \[TOOL:(\w+)\]\s*```(?:json)?\s*(.*?)\s*``` at position i of
\* s: the sentinel, a name, a fence, and a later fence, the first one that
\* follows closing the lazy group.
ClosingFence(s, i) == FirstFrom(s, <<Fence>>, i + 4)
MatchesAt(s, i) ==
    /\ StartsAt(s, Sentinel, i)
    /\ i + 3 <= Len(s)
    /\ s[i + 2] = "name]"
    /\ s[i + 3] = Fence
    /\ ClosingFence(s, i) # 0
MatchBody(s, i) == SubSeq(s, i + 4, ClosingFence(s, i) - 1)

\* json.loads of the matched group.
JsonLoads(body) == body = <<"{}">>

\* re.search: the leftmost position where the pattern matches, or 0.
RECURSIVE SearchFrom(_, _)
SearchFrom(s, i) ==
    IF i > Len(s) THEN 0
    ELSE IF MatchesAt(s, i) THEN i ELSE SearchFrom(s, i + 1)

\* _parse_tool_block: the leftmost match, if its group is JSON; the start
\* of the match is kept with the tool.
parse_tool_block(tool_block) ==
    LET i == SearchFrom(tool_block, 1) IN
    IF i # 0 /\ JsonLoads(MatchBody(tool_block, i))
    THEN [name |-> "name]", start |-> i]
    ELSE NoTool

\* _detect_tool_calls, of which the loop uses the first call: re.findall
\* goes through the matches from left to right, none overlapping another,
\* and the ones whose group is not JSON are skipped.
RECURSIVE DetectFrom(_, _)
DetectFrom(response, i) ==
    LET m == SearchFrom(response, i) IN
    IF m = 0 THEN NoTool
    ELSE IF JsonLoads(MatchBody(response, m))
    THEN [name |-> "name]", start |-> m]
    ELSE DetectFrom(response, ClosingFence(response, m) + 1)

detect_tool_calls(response) == DetectFrom(response, 1)

\* The backend sends the next n pieces as one token.
token(n) ==
    LET content == SubSeq(remaining, 1, n)
        response == current_response \o content
        buffer == tool_block_buffer \o content
        tool == parse_tool_block(buffer)
        before_tool == BeforeFirst(response, Sentinel)
    IN
    /\ stream_state = "tokens"
    /\ n \in 1..Len(remaining)
    /\ current_response' = response
    /\ IF in_tool_block
       THEN IF Count(buffer, <<Fence>>) >= 2
            THEN IF tool # NoTool
                 THEN /\ tool_detected' =
                            [tool EXCEPT !.start = Len(response) - Len(buffer) + @]
                      /\ stream_state' = "detected"
                      /\ remaining' = <<>>
                      /\ tool_block_buffer' = buffer
                      /\ UNCHANGED <<in_tool_block, display_buffer, forwarded,
                                     token_text>>
                 ELSE /\ in_tool_block' = FALSE
                      /\ forwarded' = forwarded \cup
                            (Len(response) - Len(buffer) + 1)..Len(response)
                      /\ token_text' = token_text \o buffer
                      /\ display_buffer' = display_buffer \o buffer
                      /\ tool_block_buffer' = <<>>
                      /\ remaining' = SubSeq(remaining, n + 1, Len(remaining))
                      /\ UNCHANGED <<tool_detected, stream_state>>
            ELSE /\ tool_block_buffer' = buffer
                 /\ remaining' = SubSeq(remaining, n + 1, Len(remaining))
                 /\ UNCHANGED <<in_tool_block, display_buffer, forwarded,
                                token_text, tool_detected, stream_state>>
       ELSE /\ remaining' = SubSeq(remaining, n + 1, Len(remaining))
            /\ IF Contains(response, Sentinel)
               THEN /\ in_tool_block' = TRUE
                    /\ forwarded' =
                          IF before_tool # <<>> /\ ~Contains(display_buffer, before_tool)
                          THEN forwarded \cup
                                  (Len(display_buffer) + 1)..Len(before_tool)
                          ELSE forwarded
                    /\ token_text' =
                          IF before_tool # <<>> /\ ~Contains(display_buffer, before_tool)
                          THEN token_text \o SubSeq(before_tool, Len(display_buffer) + 1,
                                                    Len(before_tool))
                          ELSE token_text
                    /\ display_buffer' = before_tool
                    /\ tool_block_buffer' = FromFirst(response, Sentinel)
               ELSE /\ forwarded' = forwarded \cup
                                       (Len(current_response) + 1)..Len(response)
                    /\ token_text' = token_text \o content
                    /\ display_buffer' = display_buffer \o content
                    /\ UNCHANGED <<in_tool_block, tool_block_buffer>>
            /\ UNCHANGED <<tool_detected, stream_state>>
    /\ UNCHANGED <<handlervars, txvars, obsvars, toolvars>>

\* The backend has sent the whole answer: the token loop ends, and the
\* answer is searched for a tool call if the loop found none.
generate_done ==
    /\ stream_state = "tokens"
    /\ remaining = <<>>
    /\ stream_state' = "done"
    /\ tool_detected' = detect_tool_calls(current_response)
    /\ UNCHANGED <<remaining, current_response, display_buffer,
                   tool_block_buffer, in_tool_block, forwarded, token_text,
                   handlervars, txvars, obsvars, toolvars>>

\* The request to the backend fails: an error event, and the loop returns.
generate_error ==
    /\ stream_state = "tokens"
    /\ stream_state' = "error"
    /\ UNCHANGED <<remaining, current_response, display_buffer,
                   tool_block_buffer, in_tool_block, tool_detected, forwarded,
                   token_text, handlervars, txvars, obsvars, toolvars>>

(***************************************************************************)
(* ToolExecutor.execute called with a tool name and an input, as the       *)
(* handler and the loop call it.                                           *)
(***************************************************************************)
\* The inputs of the calls: for write_file a path inside or outside the
\* root with a content, a path alone, and a content alone; for edit_file a
\* path with an old and a new text, and a path alone; for read_file a path.
ExecTools == {"read_file", "write_file", "edit_file", "grep", "no_such_tool"}
ExecPaths == {"a", "b"} \cup OutsideRoot
ExecInputs(tool_name) ==
    IF tool_name = "write_file"
    THEN {[NoInput EXCEPT !.file_path = p, !.content = <<2>>,
                          !.keys = {"file_path", "content"}] : p \in ExecPaths}
         \cup {[NoInput EXCEPT !.file_path = "b", !.keys = {"file_path"}],
               [NoInput EXCEPT !.content = <<2>>, !.keys = {"content"}]}
    ELSE IF tool_name = "edit_file"
    THEN {[NoInput EXCEPT !.file_path = p, !.old_text = o, !.new_text = n,
                          !.keys = {"file_path", "old_text", "new_text"}] :
             p \in ExecPaths, o \in {<<1>>, <<2>>}, n \in {<<1>>, <<2>>}}
         \cup {[NoInput EXCEPT !.file_path = "a", !.keys = {"file_path"}]}
    ELSE IF tool_name = "read_file"
    THEN {[NoInput EXCEPT !.file_path = p, !.keys = {"file_path"}] : p \in ExecPaths}
    ELSE {NoInput}

\* The required keys of the input_schema that TOOLS declares for a tool.
Required(tool_name) ==
    IF tool_name = "write_file" THEN {"file_path", "content"}
    ELSE IF tool_name \in {"read_file", "edit_file"} THEN {"file_path"}
    ELSE {}

tool_executor_execute(tool_name, tool_input) ==
    LET r == execute(fs, tool_name, tool_input) IN
    /\ fs' = r.fs
    /\ exec_call' = [tool_name |-> tool_name, tool_input |-> tool_input,
                     success |-> r.success]
    /\ UNCHANGED <<current_transaction, undo_stack, redo_stack, total_bytes,
                   max_stack, max_bytes, tx_count, staged_count, obsvars,
                   handlervars, streamvars, readvars, searchvars, clientvars>>

(***************************************************************************)
(* The read_file branch of ToolExecutor.execute on one text file.  The     *)
(* file is the sequence of the lengths of its lines, all_lines after       *)
(* split: a file has one line at least.  An input has start_line (0 when   *)
(* the key is absent), and end_line if has_end.                            *)
(***************************************************************************)
max_chars == 30000

MaxLines == 3
\* Lengths that, with the number, the colon, the blank and the newline of a
\* line below the tenth, fill half the budget, the whole budget, and more.
LineLengths == {0, max_chars \div 2 - 4, max_chars - 4, max_chars - 3}

Min(a, b) == IF a <= b THEN a ELSE b
Max(a, b) == IF a >= b THEN a ELSE b

\* len(str(line_num)).
Digits(line_num) ==
    IF line_num < 10 THEN 1 ELSE IF line_num < 100 THEN 2 ELSE 3

\* len(line_with_num): the number, ": ", the line, the newline.
LineWithNum(line_num, line_len) == Digits(line_num) + 2 + line_len + 1

\* The loop over range(start_idx, total_lines) that stops before the line
\* that would pass max_chars, unless no line was taken yet: its end_idx.
RECURSIVE CharLoop(_, _, _, _, _)
CharLoop(lines, start_idx, i, char_count, end_idx) ==
    IF i >= Len(lines) THEN end_idx
    ELSE LET n == LineWithNum(i + 1, lines[i + 1]) IN
         IF char_count + n > max_chars /\ end_idx > start_idx
         THEN end_idx
         ELSE CharLoop(lines, start_idx, i + 1, char_count + n, i + 1)

\* The result of read_file: the indexes of the slice, has_more, and
\* next_offset, which stands as 0 when the result has no such key.
tool_read_file(lines, start_line_key, has_end, end_line) ==
    LET start_line == IF start_line_key # 0 THEN start_line_key ELSE 1
        total_lines == Len(lines)
        start_idx == Max(0, start_line - 1)
        end_idx == IF has_end
                   THEN Min(end_line, total_lines)
                   ELSE CharLoop(lines, start_idx, start_idx, 0, start_idx)
        has_more == end_idx < total_lines
    IN [start_idx |-> start_idx, end_idx |-> end_idx, has_more |-> has_more,
        has_next_offset |-> has_more,
        next_offset |-> IF has_more THEN end_idx + 1 ELSE 0,
        total_lines |-> total_lines]

\* The numbers of the lines in the content of a result: range(start_idx,
\* end_idx), counted from 1.
RECURSIVE Range(_, _)
Range(from, to) == IF from > to THEN <<>> ELSE <<from>> \o Range(from + 1, to)
Showing(result) == Range(result.start_idx + 1, result.end_idx)

NoRead ==
    /\ all_lines = <<0>>
    /\ read_result = tool_read_file(<<0>>, 1, FALSE, 0)
    /\ shown = [from |-> 0, lines |-> <<>>]

StartLines == -1..(MaxLines + 1)
EndLines == -2..(MaxLines + 1)

\* A call of read_file with any start_line, and any end_line or none.
read_file_call(start_line, has_end, end_line) ==
    LET result == tool_read_file(all_lines, start_line, has_end, end_line) IN
    /\ read_result' = result
    /\ shown' = [from |-> start_line, lines |-> Showing(result)]
    /\ UNCHANGED <<all_lines, execvars, searchvars, clientvars, txvars,
                   obsvars, handlervars, streamvars>>

\* The caller follows next_offset: with no end_line, or with one that is
\* not below the start.
read_file_next(has_end, end_line) ==
    LET result == tool_read_file(all_lines, read_result.next_offset, has_end,
                                 end_line)
    IN
    /\ read_result.has_more
    /\ has_end => end_line >= read_result.next_offset
    /\ read_result' = result
    /\ shown' = [shown EXCEPT !.lines = @ \o Showing(result)]
    /\ UNCHANGED <<all_lines, execvars, searchvars, clientvars, txvars,
                   obsvars, handlervars, streamvars>>

(***************************************************************************)
(* SearchEngine.search in a content mode, for the query "a".  A file of    *)
(* the index has a name, whether the name starts with a dot, a priority,   *)
(* and its lines, each a sequence of characters.  The arguments that vary  *)
(* are max_results, include_hidden and case_sensitive; the other six are   *)
(* the same in every call.                                                 *)
(***************************************************************************)
cache_max_size == 100

File(name, hidden, priority, lines) ==
    [name |-> name, hidden |-> hidden, priority |-> priority, lines |-> lines]

\* The characters of a word, for \b: letters here, and not the blank.
WordChars == {"a", "A"}

\* re.finditer on a line: the columns where the query matches, between
\* two word boundaries when whole_word put \b around the pattern.
Columns(line, case_sensitive, whole_word) ==
    SelectSeq(Range(1, Len(line)),
              LAMBDA k :
                 /\ line[k] = "a" \/ (~case_sensitive /\ line[k] = "A")
                 /\ whole_word =>
                       /\ k = 1 \/ line[k - 1] \notin WordChars
                       /\ k = Len(line) \/ line[k + 1] \notin WordChars)

\* The loop over finditer in search_file: each match is appended, and the
\* loop over the line is left when the file has max_results // 10 matches.
RECURSIVE MatchLoop(_, _, _, _, _, _)
MatchLoop(file, i, cols, k, max_results, file_matches) ==
    IF k > Len(cols) THEN file_matches
    ELSE LET appended == Append(file_matches,
                                [file_path |-> file.name, line_number |-> i,
                                 column |-> cols[k], priority |-> file.priority])
         IN IF Len(appended) >= max_results \div 10
            THEN appended
            ELSE MatchLoop(file, i, cols, k + 1, max_results, appended)

\* search_file: the loop over the lines, which no break leaves.
RECURSIVE LineLoop(_, _, _, _, _, _)
LineLoop(file, i, case_sensitive, whole_word, max_results, file_matches) ==
    IF i > Len(file.lines) THEN file_matches
    ELSE LineLoop(file, i + 1, case_sensitive, whole_word, max_results,
                  MatchLoop(file, i, Columns(file.lines[i], case_sensitive, whole_word), 1,
                            max_results, file_matches))

search_file(file, case_sensitive, whole_word, max_results) ==
    LineLoop(file, 1, case_sensitive, whole_word, max_results, <<>>)

\* A stable sort by falling priority, for the priorities 1 and 2.
ByPriority(s) ==
    SelectSeq(s, LAMBDA x : x.priority = 2) \o SelectSeq(s, LAMBDA x : x.priority = 1)

\* _select_files: the hidden files are left out unless asked for.
select_files(index, include_hidden) ==
    ByPriority(SelectSeq(index, LAMBDA f : include_hidden \/ ~f.hidden))

\* _search_content: the files' matches are collected in the order the
\* workers complete, until there are max_results of them or more.
RECURSIVE CollectLoop(_, _, _, _, _, _, _)
CollectLoop(target_files, completed, k, case_sensitive, whole_word, max_results, matches) ==
    IF k > Len(completed) THEN matches
    ELSE LET extended == matches \o search_file(target_files[completed[k]],
                                                case_sensitive, whole_word, max_results)
         IN IF Len(extended) >= max_results
            THEN extended
            ELSE CollectLoop(target_files, completed, k + 1, case_sensitive, whole_word,
                             max_results, extended)

\* The orders in which n workers complete.
Orders(n) == {o \in [1..n -> 1..n] : \A i, j \in 1..n : i # j => o[i] # o[j]}

\* search() past the cache: select, collect, sort, cut.
search_uncached(index, args, completed) ==
    LET target_files == select_files(index, args.include_hidden)
        matches == ByPriority(CollectLoop(target_files, completed, 1,
                                          args.case_sensitive, args.whole_word,
                                          args.max_results,
                                          <<>>))
    IN [matches |-> SubSeq(matches, 1, Min(Len(matches), args.max_results)),
        truncated |-> Len(matches) > args.max_results,
        files_searched |-> Len(target_files)]

\* The arguments of a call, and the key the cache files its result under.
Args(max_results, include_hidden, case_sensitive) ==
    [query |-> "a", mode |-> "regex", file_pattern |-> "None",
     file_types |-> "None", max_results |-> max_results, context_lines |-> 2,
     case_sensitive |-> case_sensitive, whole_word |-> FALSE,
     include_hidden |-> include_hidden]
cache_key(args) ==
    <<args.query, args.mode, args.file_pattern, args.case_sensitive,
      args.whole_word>>

CacheIndex(cache, key) ==
    IF \E k \in 1..Len(cache) : cache[k].key = key
    THEN CHOOSE k \in 1..Len(cache) : cache[k].key = key
    ELSE 0

\* _cache_result; an entry keeps, next to the result, the arguments of the
\* call that made it.
cache_result(cache, key, result, args) ==
    Append(IF Len(cache) >= cache_max_size THEN Tail(cache) ELSE cache,
           [key |-> key, result |-> result, made_by |-> args])

NoResult == [matches |-> <<>>, truncated |-> FALSE, files_searched |-> 0]

search(args, completed) ==
    LET key == cache_key(args)
        hit == CacheIndex(search_cache, key)
        result == search_uncached(file_index, args, completed)
    IN
    /\ completed \in Orders(Len(select_files(file_index, args.include_hidden)))
    /\ IF hit # 0
       THEN /\ search_result' = [args |-> args, result |-> search_cache[hit].result,
                                 cached |-> TRUE,
                                 made_by |-> search_cache[hit].made_by]
            /\ UNCHANGED search_cache
       ELSE /\ search_result' = [args |-> args, result |-> result,
                                 cached |-> FALSE, made_by |-> args]
            /\ search_cache' = cache_result(search_cache, key, result, args)
    /\ UNCHANGED <<file_index, execvars, readvars, clientvars, txvars, obsvars,
                   handlervars, streamvars>>

clear_cache ==
    /\ search_cache' = <<>>
    /\ UNCHANGED <<file_index, search_result, execvars, readvars, clientvars,
                   txvars, obsvars, handlervars, streamvars>>

\* find_references: a whole-word search for the symbol with max_results
\* 500 and, when a definition_file is given, the matches of the result
\* object replaced by those in other files.  The object is the one the
\* cache holds, whether search() took it from the cache or put it there.
reference_results == 500
NoDefinition == "None"
ReferenceArgs == [Args(reference_results, FALSE, FALSE) EXCEPT !.whole_word = TRUE]

find_references(definition_file, completed) ==
    LET args == ReferenceArgs
        key == cache_key(args)
        hit == CacheIndex(search_cache, key)
        found == IF hit # 0 THEN search_cache[hit].result
                 ELSE search_uncached(file_index, args, completed)
        result == IF definition_file # NoDefinition
                  THEN [found EXCEPT !.matches =
                           SelectSeq(@, LAMBDA m : m.file_path # definition_file)]
                  ELSE found
    IN
    /\ completed \in Orders(Len(select_files(file_index, args.include_hidden)))
    /\ search_result' = [args |-> args, result |-> result, cached |-> hit # 0,
                         made_by |-> IF hit # 0 THEN search_cache[hit].made_by
                                     ELSE args]
    /\ search_cache' = IF hit # 0
                       THEN [search_cache EXCEPT ![hit].result = result]
                       ELSE cache_result(search_cache, key, result, args)
    /\ UNCHANGED <<file_index, execvars, readvars, clientvars, txvars, obsvars,
                   handlervars, streamvars>>

NoSearch ==
    /\ file_index = <<>>
    /\ search_cache = <<>>
    /\ search_result = [args |-> Args(0, FALSE, FALSE), result |-> NoResult,
                        cached |-> FALSE, made_by |-> Args(0, FALSE, FALSE)]

(***************************************************************************)
(* StreamClient.stream and _do_stream.  A response gives raw chunks; a raw *)
(* chunk here is a sequence of whole SSE events, and an event is the       *)
(* content its data line carries, or "[DONE]".  The exceptions are those   *)
(* of the requests library, with the classes they derive from.             *)
(***************************************************************************)
max_retries == 3

Exceptions == {"ConnectionError", "ConnectTimeout", "ReadTimeout",
               "ChunkedEncodingError"}

\* The classes of requests.exceptions an exception is an instance of.
Classes(exc) ==
    IF exc = "ConnectTimeout" THEN {"ConnectTimeout", "ConnectionError", "Timeout"}
    ELSE IF exc = "ReadTimeout" THEN {"ReadTimeout", "Timeout"}
    ELSE {exc}

\* The except clause of stream() that takes an exception: the first one, in
\* the order of the code, that names a class of it.
ExceptClause(exc) ==
    IF "ConnectionError" \in Classes(exc) THEN "ConnectionError"
    ELSE IF "Timeout" \in Classes(exc) THEN "Timeout"
    ELSE "Exception"

\* The exceptions iter_content raises while the body is read: a read timeout
\* arrives as ConnectionError, a broken chunk as ChunkedEncodingError.
BodyExceptions == {"ConnectionError", "ChunkedEncodingError"}

\* The while loop of _do_stream on the buffer: the events are parsed from
\* the front, each content is delivered, and [DONE] leaves the while loop.
RECURSIVE ParseLoop(_, _)
ParseLoop(events, delivered) ==
    IF events = <<>> THEN [buffer |-> <<>>, delivered |-> delivered, done |-> FALSE]
    ELSE IF Head(events) = "[DONE]"
    THEN [buffer |-> Tail(events), delivered |-> delivered, done |-> TRUE]
    ELSE ParseLoop(Tail(events), Append(delivered, Head(events)))

NotDone == <<"not parsed">>

\* The locals of _do_stream before the response is read.
NoResponse ==
    /\ wire = <<>>
    /\ sse_buffer = <<>>
    /\ full_content = <<>>
    /\ done_parsed = NotDone

\* stream() has been called: the retry loop is at its head.
StreamCalled ==
    /\ client_pc = "loop"
    /\ attempt = 0
    /\ posts = 0
    /\ client_cancelled = FALSE
    /\ slept = <<>>
    /\ raised = <<>>
    /\ status = "none"
    /\ on_chunk = <<>>
    /\ NoResponse

\* No call of stream() was made.
NoClient ==
    /\ client_pc = "idle"
    /\ attempt = 0
    /\ posts = 0
    /\ client_cancelled = FALSE
    /\ slept = <<>>
    /\ raised = <<>>
    /\ status = "none"
    /\ on_chunk = <<>>
    /\ NoResponse

\* The head of the retry loop: the cancel check, then the request.
do_stream ==
    /\ client_pc = "loop"
    /\ IF client_cancelled
       THEN /\ client_pc' = "returned"
            /\ status' = "CANCELLED"
            /\ UNCHANGED posts
       ELSE /\ client_pc' = "request"
            /\ posts' = posts + 1
            /\ UNCHANGED status
    /\ UNCHANGED <<attempt, client_cancelled, slept, raised, wire, sse_buffer,
                   full_content, on_chunk, done_parsed, execvars, readvars,
                   searchvars, txvars, obsvars, handlervars, streamvars>>

\* The attempt raises, at the request or while the body is read.  After a
\* ConnectionError the loop waits 1 s times the number of the attempt,
\* after any other exception but a Timeout 0.5 s, unless the attempt was
\* the last; a Timeout leaves the loop.  Past the loop the result is ERROR.
raises(exc) ==
    LET clause == ExceptClause(exc)
        wait == IF clause = "ConnectionError" THEN 1000 * (attempt + 1) ELSE 500
    IN
    /\ \/ client_pc = "request"
       \/ client_pc = "streaming" /\ exc \in BodyExceptions
    /\ raised' = Append(raised, exc)
    /\ IF clause = "Timeout" \/ attempt + 1 >= max_retries
       THEN /\ client_pc' = "returned"
            /\ status' = "ERROR"
            /\ UNCHANGED <<attempt, slept>>
       ELSE /\ slept' = Append(slept, wait)
            /\ attempt' = attempt + 1
            /\ client_pc' = "loop"
            /\ UNCHANGED status
    /\ UNCHANGED <<posts, client_cancelled, wire, sse_buffer, full_content,
                   on_chunk, done_parsed, execvars, readvars, searchvars,
                   txvars, obsvars, handlervars, streamvars>>

\* The response has another status than 200: _do_stream returns ERROR, and
\* stream() returns that result.
http_error ==
    /\ client_pc = "request"
    /\ client_pc' = "returned"
    /\ status' = "ERROR"
    /\ UNCHANGED <<attempt, posts, client_cancelled, slept, raised, wire,
                   sse_buffer, full_content, on_chunk, done_parsed, execvars,
                   readvars, searchvars, txvars, obsvars, handlervars,
                   streamvars>>

\* The response has status 200, and will give the raw chunks of w.
response(w) ==
    /\ client_pc = "request"
    /\ client_pc' = "streaming"
    /\ wire' = w
    /\ sse_buffer' = <<>>
    /\ full_content' = <<>>
    /\ done_parsed' = NotDone
    /\ UNCHANGED <<attempt, posts, client_cancelled, slept, raised, status,
                   on_chunk, execvars, readvars, searchvars, txvars, obsvars,
                   handlervars, streamvars>>

\* One turn of the for loop over iter_content: the cancel check, then the
\* raw chunk joins the buffer and the while loop parses it.
raw_chunk ==
    LET parsed == ParseLoop(sse_buffer \o Head(wire), <<>>) IN
    /\ client_pc = "streaming"
    /\ wire # <<>>
    /\ IF client_cancelled
       THEN /\ client_pc' = "returned"
            /\ status' = "CANCELLED"
            /\ UNCHANGED <<wire, sse_buffer, full_content, on_chunk, done_parsed>>
       ELSE /\ wire' = Tail(wire)
            /\ sse_buffer' = parsed.buffer
            /\ full_content' = full_content \o parsed.delivered
            /\ on_chunk' = on_chunk \o parsed.delivered
            /\ done_parsed' = IF parsed.done /\ done_parsed = NotDone
                              THEN full_content \o parsed.delivered
                              ELSE done_parsed
            /\ UNCHANGED <<client_pc, status>>
    /\ UNCHANGED <<attempt, posts, client_cancelled, slept, raised, execvars,
                   readvars, searchvars, txvars, obsvars, handlervars,
                   streamvars>>

\* The response has given its last raw chunk: on_complete, and COMPLETED.
complete ==
    /\ client_pc = "streaming"
    /\ wire = <<>>
    /\ client_pc' = "returned"
    /\ status' = "COMPLETED"
    /\ UNCHANGED <<attempt, posts, client_cancelled, slept, raised, wire,
                   sse_buffer, full_content, on_chunk, done_parsed, execvars,
                   readvars, searchvars, txvars, obsvars, handlervars,
                   streamvars>>

\* cancel(), from another thread.
cancel ==
    /\ client_pc \in {"loop", "request", "streaming"}
    /\ ~client_cancelled
    /\ client_cancelled' = TRUE
    /\ UNCHANGED <<client_pc, attempt, posts, slept, raised, status, wire,
                   sse_buffer, full_content, on_chunk, done_parsed, execvars,
                   readvars, searchvars, txvars, obsvars, handlervars,
                   streamvars>>

(***************************************************************************)
(* The specifications.                                                     *)
(***************************************************************************)
vars == <<txvars, obsvars, loopvars>>

InitObs ==
    /\ last_result = "ok"
    /\ replay = NoReplay
    /\ live = <<>>
    /\ undone = <<>>

\* The handlers and the loop, with no message received yet.
InitHandlers ==
    /\ pending_tool_confirmations = <<>>
    /\ pending_loop_context = FALSE
    /\ abort_requested = FALSE
    /\ pc = [c \in Conns |-> "receive"]
    /\ cancelled = [c \in Conns |-> FALSE]
    /\ iteration = [c \in Conns |-> 0]
    /\ exploration_count = [c \in Conns |-> 0]
    /\ max_iterations = [c \in Conns |-> 0]
    /\ resumed = [c \in Conns |-> FALSE]
    /\ confirm_count = 0
    /\ last_run = NoRun
    /\ requested = {}
    /\ runs = [c \in Conns |-> <<>>]
    /\ sent = <<>>
    /\ received = NoMessage
    /\ parked = <<>>

\* IDEServer.__init__, with no message received yet.
InitServer ==
    /\ InitHandlers
    /\ conversation_history = <<>>
    /\ compressed_summary = EmptyText
    /\ to_keep = [c \in Conns |-> <<>>]
    /\ message_count = 0

\* The locals of the token loop before the first token of an answer.
InitInterceptor ==
    /\ current_response = <<>>
    /\ display_buffer = <<>>
    /\ tool_block_buffer = <<>>
    /\ in_tool_block = FALSE
    /\ tool_detected = NoTool
    /\ forwarded = {}
    /\ token_text = <<>>

\* No stream is open.
NoStream ==
    /\ remaining = <<>>
    /\ stream_state = "idle"
    /\ InitInterceptor

\* No tool has been called directly.
IdleTools ==
    /\ exec_call = NoCall
    /\ NoRead
    /\ NoSearch
    /\ NoClient

\* TransactionManager.__init__ and UndoManager.__init__ with the defaults.
InitManager ==
    /\ current_transaction = NoTx
    /\ undo_stack = <<>>
    /\ redo_stack = <<>>
    /\ total_bytes = 0
    /\ max_stack = MAX_UNDO_STACK
    /\ max_bytes = MAX_UNDO_BYTES
    /\ tx_count = 0
    /\ staged_count = 0

\* The workspaces the runs start from.  TwiceAndFree: a file that holds the
\* edited string twice, and a free name.  TextAndSibling: a text file, and a
\* binary file that has the name of its temporary sibling.  TextBinaryFree:
\* a text file, a binary file that holds the edited string, a free name.
\* OutsideText: a text file outside the root, named by its absolute path.
TwiceAndFree == [p \in {"a", "b"} |-> IF p = "a" THEN <<1, 1>> ELSE NoFile]
TextAndSibling == [p \in {"a", "a.tmp"} |-> IF p = "a" THEN <<1>> ELSE <<0, 1>>]
OutsideText == [p \in OutsideRoot |-> <<1>>]
TextBinaryFree ==
    [p \in {"a", "b", "c"} |-> IF p = "a" THEN <<1>>
                               ELSE IF p = "b" THEN <<0, 1>> ELSE NoFile]

\* SpecTx: the TransactionManager driven call by call.
InitTx ==
    /\ fs \in {TwiceAndFree, TextAndSibling, OutsideText}
    /\ InitManager
    /\ InitObs
    /\ InitServer
    /\ NoStream
    /\ IdleTools

NextTx ==
    \/ \E d \in Descriptions : begin(d)
    \/ \E p \in Paths(fs), o \in OldStrings, n \in NewStrings, ra \in BOOLEAN :
          edit(p, o, n, ra)
    \/ \E p \in Paths(fs), c \in WriteContents : write(p, c)
    \/ \E p \in Paths(fs) : delete(p)
    \/ \E p \in Paths(fs) : \E q \in Paths(fs) \ {p} : rename(p, q)
    \/ \E dry_run \in BOOLEAN : commit(dry_run)
    \/ rollback
    \/ undo
    \/ redo

SpecTx == InitTx /\ [][NextTx]_vars

\* SpecMulti: the multi_edit tool, with undo and redo, and with begin and
\* rollback for a transaction left open by another caller.
InitMulti ==
    /\ fs \in {TextBinaryFree, TwiceAndFree}
    /\ InitManager
    /\ InitObs
    /\ InitServer
    /\ NoStream
    /\ IdleTools

NextMulti ==
    \/ \E edits \in EntryLists(fs), d \in Descriptions : multi_edit(edits, d)
    \/ \E d \in Descriptions : begin(d)
    \/ rollback
    \/ undo
    \/ redo

SpecMulti == InitMulti /\ [][NextMulti]_vars

\* SpecUndo: an UndoManager built with small caps.
InitUndo ==
    /\ fs = TwiceAndFree
    /\ current_transaction = NoTx
    /\ undo_stack = <<>>
    /\ redo_stack = <<>>
    /\ total_bytes = 0
    /\ max_stack \in {1, SmallStack}
    /\ max_bytes \in {SmallBytes, 2 * SmallBytes}
    /\ tx_count = 0
    /\ staged_count = 0
    /\ InitObs
    /\ InitServer
    /\ NoStream
    /\ IdleTools

NextUndo ==
    \/ \E d \in PushDescriptions :
          push([Transaction(tx_count + 1, d) EXCEPT !.status = "applied"])
    \/ pop_undo
    \/ pop_redo
    \/ clear

SpecUndo == InitUndo /\ [][NextUndo]_vars

\* SpecLoop: the chat connections and the abort endpoint.
InitLoop ==
    /\ fs = TwiceAndFree
    /\ InitManager
    /\ InitObs
    /\ InitServer
    /\ NoStream
    /\ IdleTools

NextLoop ==
    \/ \E c \in Conns : receive_cancel(c) /\ UNCHANGED <<historyvars, convvars>>
    \/ \E c \in Conns, id \in 1..MaxConfirm, approved \in BOOLEAN :
          receive_tool_confirm(c, id, approved) /\ UNCHANGED <<historyvars, convvars>>
    \/ \E c \in Conns : receive_chat(c) /\ UNCHANGED <<historyvars, convvars>>
    \/ \E c \in Conns : loop_top(c) /\ UNCHANGED <<historyvars, convvars>>
    \/ \E c \in Conns : stream_error(c) /\ UNCHANGED <<historyvars, convvars>>
    \/ \E c \in Conns : stream_done(c) /\ UNCHANGED <<historyvars, convvars>>
    \/ \E c \in Conns, t \in ToolNames : \E i \in ToolInputs(t) :
          tool_call(c, t, i) /\ UNCHANGED <<historyvars, convvars>>
    \/ abort_generation /\ UNCHANGED <<historyvars, convvars>>

SpecLoop == InitLoop /\ [][NextLoop]_vars

\* SpecTurn: one chat connection and the abort endpoint, on a workspace
\* with the file the tools name, and on one where the name is free.
OneClient == {1}
FreeNames == [p \in {"a", "b"} |-> NoFile]

InitTurn ==
    /\ fs \in {TwiceAndFree, FreeNames}
    /\ InitManager
    /\ InitObs
    /\ InitServer
    /\ NoStream
    /\ IdleTools

NextTurn ==
    \/ \E c \in OneClient : receive_cancel(c) /\ UNCHANGED <<historyvars, convvars>>
    \/ \E c \in OneClient, id \in 1..MaxConfirm, approved \in BOOLEAN :
          receive_tool_confirm(c, id, approved) /\ UNCHANGED <<historyvars, convvars>>
    \/ \E c \in OneClient : receive_chat(c) /\ UNCHANGED <<historyvars, convvars>>
    \/ \E c \in OneClient : loop_top(c) /\ UNCHANGED <<historyvars, convvars>>
    \/ \E c \in OneClient : stream_error(c) /\ UNCHANGED <<historyvars, convvars>>
    \/ \E c \in OneClient : stream_done(c) /\ UNCHANGED <<historyvars, convvars>>
    \/ \E c \in OneClient, t \in ToolNames : \E i \in ToolInputs(t) :
          tool_call(c, t, i) /\ UNCHANGED <<historyvars, convvars>>
    \/ abort_generation /\ UNCHANGED <<historyvars, convvars>>

SpecTurn == InitTurn /\ [][NextTurn]_vars

\* SpecTurnFair: SpecTurn with a loop that is not left waiting for ever: the
\* event loop runs the coroutine of a handler whose await has completed, and
\* every stream of the backend ends, with its last token or with an error.
LoopStep(c) ==
    /\ \/ loop_top(c)
       \/ stream_error(c)
       \/ stream_done(c)
       \/ \E t \in ToolNames : \E i \in ToolInputs(t) : tool_call(c, t, i)
    /\ UNCHANGED <<historyvars, convvars>>

SpecTurnFair ==
    InitTurn /\ [][NextTurn]_vars /\ \A c \in OneClient : WF_vars(LoopStep(c))

\* SpecPark: one chat connection, with the history of what the loop's
\* counters were when each confirmation was registered.
Park(c) ==
    [i \in DOMAIN parked \cup {confirm_count + 1} |->
        IF i = confirm_count + 1
        THEN [iteration |-> iteration[c],
              exploration_count |-> exploration_count[c]]
        ELSE parked[i]]

NextPark ==
    \/ \E c \in OneClient : receive_cancel(c) /\ UNCHANGED <<historyvars, convvars>>
    \/ \E c \in OneClient, id \in 1..MaxConfirm, approved \in BOOLEAN :
          /\ receive_tool_confirm(c, id, approved)
          /\ parked' = [i \in DOMAIN parked \ {id} |-> parked[i]]
          /\ UNCHANGED <<received, convvars>>
    \/ \E c \in OneClient : receive_chat(c) /\ UNCHANGED <<historyvars, convvars>>
    \/ \E c \in OneClient : loop_top(c) /\ UNCHANGED <<historyvars, convvars>>
    \/ \E c \in OneClient : stream_error(c) /\ UNCHANGED <<historyvars, convvars>>
    \/ \E c \in OneClient : stream_done(c) /\ UNCHANGED <<historyvars, convvars>>
    \/ \E c \in OneClient, t \in ToolNames : \E i \in ToolInputs(t) :
          /\ tool_call(c, t, i)
          /\ parked' = IF t \in ConfirmTools THEN Park(c) ELSE parked
          /\ UNCHANGED <<received, convvars>>
    \/ abort_generation /\ UNCHANGED <<historyvars, convvars>>

SpecPark == InitLoop /\ [][NextPark]_vars

\* SpecConfirm: one chat connection, with the history of which tool_confirm
\* message the handler took last; the messages name the ids that were made
\* and one that never is.
NextConfirm ==
    \/ \E c \in OneClient :
          receive_cancel(c) /\ received' = NoMessage /\ UNCHANGED <<parked, convvars>>
    \/ \E c \in OneClient, id \in 1..(MaxConfirm + 1), approved \in BOOLEAN :
          /\ receive_tool_confirm(c, id, approved)
          /\ received' = [id |-> id, approved |-> approved,
                          known |-> id \in DOMAIN pending_tool_confirmations]
          /\ UNCHANGED <<parked, convvars>>
    \/ \E c \in OneClient :
          receive_chat(c) /\ received' = NoMessage /\ UNCHANGED <<parked, convvars>>
    \/ \E c \in OneClient :
          loop_top(c) /\ received' = NoMessage /\ UNCHANGED <<parked, convvars>>
    \/ \E c \in OneClient :
          stream_error(c) /\ received' = NoMessage /\ UNCHANGED <<parked, convvars>>
    \/ \E c \in OneClient :
          stream_done(c) /\ received' = NoMessage /\ UNCHANGED <<parked, convvars>>
    \/ \E c \in OneClient, t \in ToolNames : \E i \in ToolInputs(t) :
          tool_call(c, t, i) /\ received' = NoMessage /\ UNCHANGED <<parked, convvars>>
    \/ abort_generation /\ received' = NoMessage /\ UNCHANGED <<parked, convvars>>

SpecConfirm == InitLoop /\ [][NextConfirm]_vars

\* SpecCompress: the chat connections with the conversation, which starts
\* as nine short messages of earlier turns have left it.
NineShort ==
    [i \in 1..9 |-> Message(IF i % 2 = 1 THEN "user" ELSE "assistant", Short, i)]

InitCompress ==
    /\ fs = TwiceAndFree
    /\ InitManager
    /\ InitObs
    /\ InitHandlers
    /\ conversation_history = NineShort
    /\ compressed_summary = EmptyText
    /\ to_keep = [c \in Conns |-> <<>>]
    /\ message_count = 9
    /\ NoStream
    /\ IdleTools

NextCompress ==
    \/ \E c \in Conns, content \in {Short, Long} : chat(c, content)
    \/ \E c \in Conns, answer \in CompressAnswers : compress_answer(c, answer)
    \/ \E c \in Conns : loop_top(c) /\ UNCHANGED <<historyvars, convvars>>
    \/ \E c \in Conns : stream_error(c) /\ UNCHANGED <<historyvars, convvars>>
    \/ \E c \in Conns : reply(c)

SpecCompress == InitCompress /\ [][NextCompress]_vars

\* SpecStream: the token loop over one answer of the backend.
InitStream ==
    /\ fs = TwiceAndFree
    /\ InitManager
    /\ InitObs
    /\ InitServer
    /\ remaining \in Responses
    /\ stream_state = "tokens"
    /\ InitInterceptor
    /\ IdleTools

NextStream ==
    \/ \E n \in 1..Len(remaining) : token(n)
    \/ generate_done
    \/ generate_error

SpecStream == InitStream /\ [][NextStream]_vars

\* SpecExec: ToolExecutor.execute, call after call, on a workspace with a
\* file that holds the edited string twice, a free name, and a file outside
\* the root.
TwiceFreeOutside ==
    [p \in ExecPaths |-> IF p = "a" THEN <<1, 1>>
                         ELSE IF p = "b" THEN NoFile ELSE <<1>>]

InitExec ==
    /\ fs = TwiceFreeOutside
    /\ InitManager
    /\ InitObs
    /\ InitServer
    /\ NoStream
    /\ IdleTools

NextExec ==
    \E t \in ExecTools : \E i \in ExecInputs(t) : tool_executor_execute(t, i)

SpecExec == InitExec /\ [][NextExec]_vars

\* SpecRead: read_file calls on a file of up to MaxLines lines.
InitRead ==
    /\ fs = TwiceAndFree
    /\ InitManager
    /\ InitObs
    /\ InitServer
    /\ NoStream
    /\ exec_call = NoCall
    /\ NoClient
    /\ NoSearch
    /\ all_lines \in UNION {[1..n -> LineLengths] : n \in 1..MaxLines}
    /\ read_result = tool_read_file(all_lines, 1, FALSE, 0)
    /\ shown = [from |-> 1, lines |-> Showing(read_result)]

NextRead ==
    \/ \E start_line \in StartLines, has_end \in BOOLEAN, end_line \in EndLines :
          read_file_call(start_line, has_end, end_line)
    \/ \E has_end \in BOOLEAN, end_line \in EndLines :
          read_file_next(has_end, end_line)

SpecRead == InitRead /\ [][NextRead]_vars

\* SpecSearch: searches on an indexed workspace.  ManyLines: one file with
\* more matching lines than any max_results.  TwoOnALine: one file whose
\* line holds the query twice.  ThreeFiles: two files of three matching
\* lines, one in upper case, and a hidden file.
MaxResults == {3, 10}
ExampleLines == 12
ManyLines == <<File("f", FALSE, 1, [i \in 1..ExampleLines |-> <<"a">>])>>
TwoOnALine == <<File("f", FALSE, 1, << <<"a", "a">> >>)>>
ThreeFiles ==
    <<File("f", FALSE, 1, << <<"a">>, <<"a">>, <<"a">> >>),
      File("g", FALSE, 2, << <<"a">>, <<"A">>, <<"a">> >>),
      File(".h", TRUE, 1, << <<"a">> >>)>>

InitSearch ==
    /\ fs = TwiceAndFree
    /\ InitManager
    /\ InitObs
    /\ InitServer
    /\ NoStream
    /\ exec_call = NoCall
    /\ NoClient
    /\ NoRead
    /\ file_index \in {ManyLines, TwoOnALine, ThreeFiles}
    /\ search_cache = <<>>
    /\ search_result = [args |-> Args(0, FALSE, FALSE), result |-> NoResult,
                        cached |-> FALSE, made_by |-> Args(0, FALSE, FALSE)]

NextSearch ==
    \/ \E max_results \in MaxResults, include_hidden \in BOOLEAN,
          case_sensitive \in BOOLEAN :
          \E completed \in Orders(Len(select_files(file_index, include_hidden))) :
             search(Args(max_results, include_hidden, case_sensitive), completed)
    \/ clear_cache

SpecSearch == InitSearch /\ [][NextSearch]_vars

\* SpecRefs: find_references, with and without a definition file, next to
\* searches with its arguments and with others.  DefAndUses: the symbol
\* defined in f and used in g, once inside a longer word.
DefAndUses ==
    <<File("f", FALSE, 1, << <<"a">> >>),
      File("g", FALSE, 1, << <<"a">>, <<"a", "a", " ", "a">> >>)>>

FileNames(index) == {index[k].name : k \in 1..Len(index)}

InitRefs ==
    /\ fs = TwiceAndFree
    /\ InitManager
    /\ InitObs
    /\ InitServer
    /\ NoStream
    /\ exec_call = NoCall
    /\ NoClient
    /\ NoRead
    /\ file_index \in {DefAndUses, ThreeFiles}
    /\ search_cache = <<>>
    /\ search_result = [args |-> Args(0, FALSE, FALSE), result |-> NoResult,
                        cached |-> FALSE, made_by |-> Args(0, FALSE, FALSE)]

NextRefs ==
    \/ \E definition_file \in {NoDefinition} \cup FileNames(file_index) :
          \E completed \in Orders(Len(select_files(file_index, FALSE))) :
             find_references(definition_file, completed)
    \/ \E completed \in Orders(Len(select_files(file_index, FALSE))) :
          search(ReferenceArgs, completed)
    \/ \E max_results \in MaxResults, case_sensitive \in BOOLEAN :
          \E completed \in Orders(Len(select_files(file_index, FALSE))) :
             search(Args(max_results, FALSE, case_sensitive), completed)
    \/ clear_cache

SpecRefs == InitRefs /\ [][NextRefs]_vars

\* SpecClient: one call of StreamClient.stream.  The bodies a response can
\* give: an answer and [DONE]; [DONE] and a later raw chunk; [DONE] with an
\* event behind it in its raw chunk, and a later raw chunk or none.
Bodies ==
    {<< <<"A">>, <<"[DONE]">> >>,
     << <<"A", "[DONE]">>, <<"B">> >>,
     << <<"A", "[DONE]", "B">> >>,
     << <<"A", "[DONE]", "B">>, <<"C">> >>}

InitClient ==
    /\ fs = TwiceAndFree
    /\ InitManager
    /\ InitObs
    /\ InitServer
    /\ NoStream
    /\ exec_call = NoCall
    /\ NoRead
    /\ NoSearch
    /\ StreamCalled

NextClient ==
    \/ do_stream
    \/ \E exc \in Exceptions : raises(exc)
    \/ http_error
    \/ \E w \in Bodies : response(w)
    \/ raw_chunk
    \/ complete
    \/ cancel

SpecClient == InitClient /\ [][NextClient]_vars

(***************************************************************************)
(* Properties.                                                             *)
(***************************************************************************)
\* The tools the loop is to leave to a confirmation.
DestructiveTools == {"write_file", "edit_file", "bash", "multi_edit",
                     "git_commit", "update_project_memory"}

\* C1: the loop itself never executes a destructive tool (write_file,
\* edit_file, bash, multi_edit, git_commit, update_project_memory), and every
\* registered confirmation has had its tool_confirm_request sent.
C1_DestructiveToolsAwaitApproval ==
    /\ last_run.by = "loop" => last_run.tool \notin DestructiveTools
    /\ \A id \in DOMAIN pending_tool_confirmations : id \in requested

\* C2: whenever a connection has a stream in flight, no confirmation is
\* pending.
C2_NoPendingWhileStreaming ==
    (\E c \in Conns : pc[c] = "stream") => DOMAIN pending_tool_confirmations = {}

\* C3: a transaction is committed, then undone, then redone: every file is
\* as it was immediately after the commit.
C3_UndoThenRedoRestoresCommit ==
    replay.k = 1 /\ replay.j = 1 => fs = replay.fs_top

\* C4: an undo leaves every file that a modify or delete change of the
\* undone transaction names holding that change's old_content.
C4_UndoRestoresOldContent ==
    [][undo /\ undo_stack # <<>> =>
          \A i \in 1..Len(Last(undo_stack).changes) :
             LET c == Last(undo_stack).changes[i] IN
             c.operation \in {"modify", "delete"} =>
                fs'[c.file_path] = c.old_content]_vars

\* C5: a commit in which a change fails leaves the workspace as it was
\* before the commit, and pushes nothing.
C5_FailedCommitLeavesWorkspace ==
    [][commit(FALSE) /\ last_result' = "failed" =>
          fs' = fs /\ undo_stack' = undo_stack]_vars

\* C6: a multi_edit that reports success has applied every edit, and its
\* batch is the transaction on top of the undo stack.
C6_MultiEditSuccessIsOneTransaction ==
    last_result = "success" =>
        /\ undo_stack # <<>>
        /\ Last(undo_stack).id = tx_count
        /\ \A i \in 1..Len(Last(undo_stack).changes) :
              Last(undo_stack).changes[i].status = "applied"

\* C7: a begin while a transaction is open raises an error and leaves the
\* open transaction and its staged changes as they were; after a commit or a
\* rollback, no transaction is open.
C7_OneOpenTransaction ==
    [][/\ (\E d \in Descriptions : begin(d)) /\ current_transaction # NoTx =>
             /\ last_result' = "RuntimeError"
             /\ current_transaction' = current_transaction
       /\ (\E dry_run \in BOOLEAN : commit(dry_run)) \/ rollback =>
             current_transaction' = NoTx]_vars

\* C8: the undo stack holds the committed transactions that are not undone,
\* the newest last, and the redo stack the undone ones, the last undone
\* last; and after k undos followed by k redos, k at least 2, the files are
\* as the last commit left them.
C8_UndoRedoOrder ==
    /\ Ids(undo_stack) = live
    /\ Ids(redo_stack) = undone
    /\ replay.k > 1 /\ replay.j = replay.k => fs = replay.fs_top

\* C9: a commit that applied leaves the redo stack empty, and a redo right
\* after it returns None and changes no file.
C9_CommitEmptiesRedo ==
    [][/\ last_result' = "applied" => redo_stack' = <<>>
       /\ last_result = "applied" /\ redo =>
             /\ last_result' = "None"
             /\ fs' = fs
             /\ undo_stack' = undo_stack]_vars

\* A commit has just applied, and found an undone transaction to drop.
C9_Witness ==
    /\ last_result = "applied"
    /\ replay.dropped > 0

RECURSIVE SumSizes(_)
SumSizes(stack) ==
    IF stack = <<>> THEN 0
    ELSE calculate_size(Head(stack)) + SumSizes(Tail(stack))

\* C10: the undo stack holds at most max_stack transactions, and their
\* summed sizes are at most max_bytes.
C10_UndoStackWithinCaps ==
    /\ Len(undo_stack) <= max_stack
    /\ SumSizes(undo_stack) <= max_bytes

\* C11: a file change made by an approved write_file or edit_file call is a
\* committed transaction on top of the undo stack, one of whose changes
\* holds the file's content before the call and its content after it.
C11_ApprovedWriteIsOnUndoStack ==
    [][\A c \in Conns : \A id \in DOMAIN pending_tool_confirmations :
          /\ receive_tool_confirm(c, id, TRUE)
          /\ pending_tool_confirmations[id].tool_name \in {"write_file", "edit_file"}
          /\ fs' # fs
          => /\ undo_stack' # <<>>
             /\ Last(undo_stack').status = "applied"
             /\ LET p == pending_tool_confirmations[id].tool_input.file_path IN
                \E i \in 1..Len(Last(undo_stack').changes) :
                   LET change == Last(undo_stack').changes[i] IN
                   /\ change.file_path = p
                   /\ change.old_content = IF Exists(fs, p) THEN fs[p] ELSE None
                   /\ change.new_content = fs'[p]]_vars

\* C12: a rejected confirmation does not run the parked tool: the files, the
\* undo stack and the redo stack are as before, no tool is recorded as
\* executed, and the confirmation and the saved loop context are gone.
C12_RejectionLeavesWorkspace ==
    [][\A c \in Conns : \A id \in DOMAIN pending_tool_confirmations :
          receive_tool_confirm(c, id, FALSE)
          => /\ fs' = fs
             /\ undo_stack' = undo_stack
             /\ redo_stack' = redo_stack
             /\ last_run' = last_run
             /\ id \notin DOMAIN pending_tool_confirmations'
             /\ ~pending_loop_context']_vars

\* A confirmation has been rejected after an approved one changed a file.
C12_Witness ==
    /\ sent # <<>>
    /\ sent[1].detail = "rejected"
    /\ fs # TwiceAndFree

\* C13: after a rejection the UI gets the tool_result that says the user
\* rejected the call, then done, and the handler waits for its next message:
\* the rejection opens no stream.
C13_RejectionSendsResultThenDone ==
    [][\A c \in Conns : \A id \in DOMAIN pending_tool_confirmations :
          receive_tool_confirm(c, id, FALSE)
          => /\ sent' = <<Event(c, "tool_result", "rejected"),
                          Event(c, "done", "rejected")>>
             /\ pc'[c] = "receive"
             /\ \A d \in Conns : pc'[d] = "stream" => pc[d] = "stream"]_vars

\* The last step sent a rejection's two events, and its handler waits.
C13_Witness ==
    /\ Len(sent) = 2
    /\ sent[2] = Event(sent[1].to, "done", "rejected")
    /\ pc[sent[1].to] = "receive"

\* C14: an approved confirmation runs the parked tool, sends its
\* tool_result, and enters the loop again with iterations left, so that a
\* new stream is opened.
C14_ApprovalResumesLoop ==
    [][\A c \in Conns : \A id \in DOMAIN pending_tool_confirmations :
          receive_tool_confirm(c, id, TRUE)
          => /\ last_run' = [tool |-> pending_tool_confirmations[id].tool_name,
                             by |-> "confirm"]
             /\ sent'[1].type = "tool_result"
             /\ pc'[c] = "loop"
             /\ iteration'[c] < max_iterations'[c]]_vars

\* The types of a sequence of events.
Types(events) == [i \in 1..Len(events) |-> events[i].type]

\* C15: a stream of prose followed by a well-formed block for a destructive
\* tool sends token, tool_detected, tool_confirm_request and
\* waiting_confirmation, in this order, and no error event.
C15_ConfirmRequestFollowsDetection ==
    [][\A c \in Conns : \A t \in DestructiveTools : \A i \in ToolInputs(t) :
          tool_call(c, t, i)
          => Types(sent') = <<"token", "tool_detected", "tool_confirm_request",
                              "waiting_confirmation">>]_vars

\* C16: when a tool block has been parsed, no token event has carried a
\* piece of the answer that lies at or after the start of that block's
\* sentinel.
C16_NothingForwardedPastSentinel ==
    tool_detected # NoTool => \A p \in forwarded : p < tool_detected.start

\* The read-only tools, whose executions in a turn the budget is to cap.
ReadOnlyTools ==
    {"read_file", "list_dir", "search_code", "grep", "glob", "find_symbol",
     "find_references", "find_definition", "git_status", "git_diff", "git_log",
     "project_structure", "find_files_by_content", "analyze_code",
     "explain_code", "read_project_memory"}

\* How many entries of a sequence are in a set.
CountIn(seq, S) == Cardinality({i \in 1..Len(seq) : seq[i] \in S})

\* C17: in every turn the read-only tools executed so far, and the counter
\* exploration_count, are at most max_exploration.
C17_ExplorationWithinBudget ==
    \A c \in Conns :
       /\ CountIn(runs[c], ReadOnlyTools) <= MaxExploration
       /\ exploration_count[c] <= MaxExploration

\* C18: once max_exploration calls of read_file, list_dir or search_code
\* have been executed in an invocation, a further such call is not executed:
\* no tool runs, no file changes, a note is sent as a token, and the loop
\* goes to its next iteration.
C18_OverBudgetExplorationIsNotRun ==
    [][\A c \in Conns : \A t \in exploration_tools : \A i \in ToolInputs(t) :
          /\ tool_call(c, t, i)
          /\ CountIn(runs[c], exploration_tools) >= MaxExploration
          => /\ runs' = runs
             /\ last_run' = last_run
             /\ fs' = fs
             /\ sent'[Len(sent')] = Event(c, "token", "note")
             /\ "tool_executing" \notin {sent'[k].type : k \in 1..Len(sent')}
             /\ pc'[c] = "loop"]_vars

\* Exploration calls have been refused in two streams of one invocation,
\* after max_exploration were executed.
C18_Witness ==
    \E c \in Conns :
       /\ pc[c] = "loop"
       /\ CountIn(runs[c], exploration_tools) = MaxExploration
       /\ exploration_count[c] > MaxExploration + 1
       /\ sent # <<>>
       /\ sent[Len(sent)] = Event(c, "token", "note")

\* C19: a cancel message sets abort_requested.
C19_CancelSetsAbort ==
    [][\A c \in Conns : receive_cancel(c) => abort_requested']_vars

\* C20: a loop that finds abort_requested set at the head of an iteration
\* opens no stream, executes no tool, and ends the turn with a cancelled
\* event, not with done.
C20_AbortEndsWithCancelled ==
    [][\A c \in Conns :
          /\ loop_top(c)
          /\ abort_requested
          /\ iteration[c] < max_iterations[c]
          => /\ pc'[c] = "receive"
             /\ last_run' = last_run
             /\ Types(sent') = <<"cancelled">>]_vars

\* C21: edit_file in text mode succeeds only when old_text occurs exactly
\* once in the file; when it occurs zero times or more than once the call
\* returns success=false and leaves the file as it was.
C21_TextEditNeedsOneOccurrence ==
    [][\A i \in ExecInputs("edit_file") :
          (i.old_text # <<>> /\ Exists(fs, i.file_path)
             /\ tool_executor_execute("edit_file", i))
          => /\ exec_call'.success => Count(fs[i.file_path], i.old_text) = 1
             /\ Count(fs[i.file_path], i.old_text) # 1
                   => ~exec_call'.success /\ fs' = fs]_vars

\* C22: every read_file result with has_more has a next_offset that is a
\* line number counted from 1 and at most total_lines + 1; a chain of calls
\* that follows next_offset returns consecutive lines, none repeated and
\* none skipped; and a chain from line 1 that has ended returned every line
\* of the file once.
C22_NextOffsetPagesTheFile ==
    /\ read_result.has_more =>
          /\ read_result.has_next_offset
          /\ read_result.next_offset \in 1..(read_result.total_lines + 1)
    /\ \A k \in 1..(Len(shown.lines) - 1) : shown.lines[k + 1] = shown.lines[k] + 1
    /\ (shown.from = 1 /\ ~read_result.has_more) =>
          shown.lines = Range(1, Len(all_lines))

\* C23: a tool that is executed gives a result, whatever its input, and the
\* loop goes on; and a result with success=false is an observation of the
\* next request to the model: the turn does not end with it.
C23_FailedToolIsFedBack ==
    [][\A c \in Conns :
          /\ (\E k \in 1..Len(sent') : sent'[k] = Event(c, "tool_executing", ""))
                => /\ \E k \in 1..Len(sent') : sent'[k].type = "tool_result"
                   /\ pc'[c] = "loop"
          /\ (\E k \in 1..Len(sent') : sent'[k] = ToolResult(c, FALSE))
                => pc'[c] = "loop"]_vars

\* C24: a call whose input lacks a key the tool's schema requires, or an
\* edit_file call that has no old_text, returns success=false and creates
\* and changes no file.
C24_SchemaFailureRunsNothing ==
    [][\A t \in ExecTools : \A i \in ExecInputs(t) :
          (/\ \/ ~(Required(t) \subseteq i.keys)
              \/ t = "edit_file" /\ "old_text" \notin i.keys
           /\ tool_executor_execute(t, i))
          => ~exec_call'.success /\ fs' = fs]_vars

\* C25: a tool call whose path lies outside the workspace root returns
\* success=false, and the file outside is not read and keeps its content.
C25_NoAccessOutsideRoot ==
    [][\A t \in ExecTools : \A i \in ExecInputs(t) :
          (i.file_path \in OutsideRoot /\ tool_executor_execute(t, i))
          => ~exec_call'.success /\ fs' = fs]_vars

\* The matches of the query in the files a call selects.
AllMatches(index, args) ==
    LET target_files == select_files(index, args.include_hidden) IN
    UNION {UNION {{[file_path |-> target_files[f].name, line_number |-> i,
                    column |-> c, priority |-> target_files[f].priority] :
                      c \in {Columns(target_files[f].lines[i], args.case_sensitive, args.whole_word)[k] :
                               k \in 1..Len(Columns(target_files[f].lines[i],
                                                    args.case_sensitive, args.whole_word))}} :
                  i \in 1..Len(target_files[f].lines)} :
           f \in 1..Len(target_files)}

\* C26: a search that is computed returns at most max_results matches; its
\* truncated flag is set whenever a match of the selected files is not
\* among them; and for one file whose lines all match once, more lines than
\* max_results, it returns the first max_results lines in order, truncated.
C26_CapAndTruncatedFlag ==
    LET args == search_result.args
        matches == search_result.result.matches
        returned == {matches[k] : k \in 1..Len(matches)}
    IN
    (~search_result.cached /\ args.max_results > 0) =>
       /\ Len(matches) <= args.max_results
       /\ AllMatches(file_index, args) \ returned # {}
             => search_result.result.truncated
       /\ (/\ Len(file_index) = 1
           /\ Len(file_index[1].lines) > args.max_results
           /\ \A i \in 1..Len(file_index[1].lines) :
                 Len(Columns(file_index[1].lines[i], args.case_sensitive, args.whole_word)) = 1)
             => /\ search_result.result.truncated
                /\ Len(matches) = args.max_results
                /\ \A k \in 1..Len(matches) : matches[k].line_number = k

\* C27: a search answered from the cache returns what a search that is
\* computed with the same arguments can return, and the entry it is
\* answered from was made by a call with the same nine arguments.
C27_CacheKeyedByAllArguments ==
    search_result.cached =>
       /\ search_result.made_by = search_result.args
       /\ \E completed \in Orders(Len(select_files(file_index,
                                                   search_result.args.include_hidden))) :
             search_result.result =
                search_uncached(file_index, search_result.args, completed)

\* C28: stream() makes at most three requests; the wait after a connection
\* error grows linearly with the number of the attempt, and a request
\* follows it; an attempt that timed out is the last one; and a call that
\* returns with no attempt completed, and was not cancelled, has the status
\* ERROR.
C28_ThreeAttemptsLinearBackoff ==
    /\ posts <= 3
    /\ \A k \in 1..Len(slept) :
          "ConnectionError" \in Classes(raised[k]) => slept[k] = 1000 * k
    /\ \A k \in 1..Len(raised) :
          "Timeout" \in Classes(raised[k])
             => k = Len(raised) /\ posts = k /\ client_pc = "returned"
    /\ (client_pc = "returned" /\ status # "COMPLETED" /\ ~client_cancelled)
          => status = "ERROR"

\* C29: once an attempt has parsed [DONE], nothing more is passed to
\* on_chunk or appended to the content, and the call returns COMPLETED.
C29_DoneIsTerminal ==
    done_parsed # NotDone =>
       /\ full_content = done_parsed
       /\ client_pc = "returned" => status = "COMPLETED"

\* C30: when the token loop detects a tool block, the token events of the
\* stream have carried, in order and once, exactly the text of the answer
\* that precedes the sentinel: the first sentinel of the answer, or the one
\* of the block that is detected.
C30_TokensAreTheProseBeforeSentinel ==
    stream_state = "detected" =>
       \/ token_text = BeforeFirst(current_response, Sentinel)
       \/ token_text = SubSeq(current_response, 1, tool_detected.start - 1)

\* C31: when the stream has ended and neither the token loop nor the search
\* of the whole answer found a tool block that parses, although the answer
\* holds the sentinel, the token events have carried the whole answer, once
\* and in order.
C31_ParseFailureDegradesToProse ==
    (stream_state = "done" /\ tool_detected = NoTool
        /\ Contains(current_response, Sentinel))
       => token_text = current_response

\* The events that end an invocation of the loop.
Terminal == {"done", "error", "waiting_confirmation"}

\* C32: an invocation of the loop opens at most max_iterations streams and
\* returns; the last event it sends is done, error or waiting_confirmation,
\* and it sends none of these before.
C32_LoopTerminates ==
    /\ [](\A c \in OneClient : iteration[c] <= max_iterations[c])
    /\ [][\A c \in OneClient :
            pc[c] # "receive" =>
               IF pc'[c] = "receive"
               THEN /\ sent' # <<>>
                    /\ sent'[Len(sent')].to = c
                    /\ sent'[Len(sent')].type \in Terminal
                    /\ \A k \in 1..(Len(sent') - 1) : sent'[k].type \notin Terminal
               ELSE \A k \in 1..Len(sent') : sent'[k].type \notin Terminal]_vars
    /\ \A c \in OneClient : (pc[c] # "receive") ~> (pc[c] = "receive")

\* The loop has opened max_iterations streams and is at the head of the
\* while loop again.
C32_Witness ==
    \E c \in OneClient :
       /\ pc[c] = "loop"
       /\ max_iterations[c] = ChatIterations
       /\ iteration[c] = max_iterations[c]

\* C33: an approval enters the loop again, with the iteration index and the
\* exploration_count that the loop had when it registered the confirmation.
C33_BudgetsSurviveSuspension ==
    [][\A c \in OneClient : \A id \in DOMAIN pending_tool_confirmations :
          receive_tool_confirm(c, id, TRUE)
          => /\ pc'[c] = "loop"
             /\ iteration'[c] = parked[id].iteration
             /\ exploration_count'[c] = parked[id].exploration_count]_vars

\* C36: the ids are made once each; a tool_confirm leaves its id not
\* registered; and a tool_confirm whose id is not registered, because it was
\* confirmed before or never made, executes no tool, changes no file and no
\* stack, sends nothing and starts no loop.
C36_ParkedToolRunsAtMostOnce ==
    /\ [](DOMAIN pending_tool_confirmations \subseteq 1..confirm_count)
    /\ [][/\ confirm_count' >= confirm_count
          /\ \A id \in DOMAIN pending_tool_confirmations' :
                id \in DOMAIN pending_tool_confirmations \/ id > confirm_count
          /\ \A c \in OneClient, id \in 1..(MaxConfirm + 1), approved \in BOOLEAN :
                receive_tool_confirm(c, id, approved)
                => /\ id \notin DOMAIN pending_tool_confirmations'
                   /\ id \notin DOMAIN pending_tool_confirmations
                         => /\ fs' = fs
                            /\ last_run' = last_run
                            /\ undo_stack' = undo_stack
                            /\ redo_stack' = redo_stack
                            /\ pc' = pc
                            /\ sent' = <<>>]_vars

\* The last step took an approving tool_confirm for an id that was made and
\* confirmed before, after the first approval had changed a file.
C36_Witness ==
    /\ received.approved
    /\ ~received.known
    /\ received.id \in 1..confirm_count
    /\ last_run.by = "confirm"
    /\ fs # TwiceAndFree

\* _pending_loop_context is one attribute of the server, which every
\* confirmation that saves its context assigns: the context it holds is the
\* one of the confirmation registered last, or none (0).
ContextOf == IF pending_loop_context THEN confirm_count ELSE 0

\* C37: an approval of a registered id enters the loop again, and with the
\* context that was saved when that id was registered.
C37_ApprovalResumesWithItsContext ==
    [][\A c \in Conns : \A id \in DOMAIN pending_tool_confirmations :
          receive_tool_confirm(c, id, TRUE)
          => /\ ContextOf = id
             /\ resumed'[c]
             /\ pc'[c] = "loop"]_vars

\* The answers with which the backend has done what it was asked: a 200
\* with a JSON object.
SuccessfulAnswers ==
    {a \in CompressAnswers : /\ ~a.raised
                             /\ a.status_code = 200
                             /\ a.json \in {"object", "object without content"}}

\* C34: a compression that gets a successful answer leaves the history equal
\* to its ten most recent messages, in their order, and the summary
\* non-empty.
C34_CompressionKeepsLastTen ==
    [][\A c \in Conns : \A a \in SuccessfulAnswers :
          compress_answer(c, a)
          => /\ conversation_history' = LastOf(conversation_history, KeepLast)
             /\ Truthy(compressed_summary')]_vars

\* The answers the claim calls a failure: an exception, a timeout among
\* them, and a status other than 200.
FailedAnswers == {a \in CompressAnswers : a.raised \/ a.status_code # 200}

\* C35: a summarisation request that fails leaves conversation_history and
\* compressed_summary as they were, sends no error, and the handler enters
\* the loop of the chat.
C35_FailedCompressionIsNotFatal ==
    [][\A c \in Conns : \A a \in FailedAnswers :
          compress_answer(c, a)
          => /\ conversation_history' = conversation_history
             /\ compressed_summary' = compressed_summary
             /\ sent' = <<>>
             /\ pc'[c] = "loop"
             /\ iteration'[c] = 0
             /\ max_iterations'[c] = ChatIterations]_vars

\* A connection is at the head of the loop after its request for a summary
\* failed: the history is still long and over the limit, and the step sent
\* nothing.
C35_Witness ==
    \E c \in Conns :
       /\ pc[c] = "loop"
       /\ iteration[c] = 0
       /\ \A d \in Conns \ {c} : pc[d] = "receive"
       /\ sent = <<>>
       /\ Len(conversation_history) > KeepLast
       /\ get_conversation_tokens(conversation_history, compressed_summary)
             > context_token_limit

\* C38: a multi_edit call that found no transaction open leaves none open
\* when it returns, whether it succeeded, an edit failed, or the executor
\* caught an exception, so that the begin of the next caller is not refused.
C38_MultiEditLeavesNoTransactionOpen ==
    [][\A edits \in EntryLists(fs), d \in Descriptions :
          current_transaction = NoTx /\ multi_edit(edits, d)
              => current_transaction' = NoTx]_vars

\* The workspace after the edits from the i-th on are applied one after the
\* other, each to the file as the edits before it left it.
RECURSIVE InBatchOrder(_, _, _)
InBatchOrder(f, edits, i) ==
    IF i > Len(edits) THEN f
    ELSE LET e == edits[i] IN
         InBatchOrder([f EXCEPT ![e.file_path] =
                          ReplaceOnce(@, e.old_text, e.new_text)], edits, i + 1)

\* C39: a multi_edit batch with two edits of the same file that reports
\* success leaves the files as the edits applied in batch order leave them.
C39_SameFileEditsAllApplied ==
    [][\A edits \in EditLists(fs), d \in Descriptions :
          (/\ multi_edit(edits, d)
           /\ last_result' = "success"
           /\ \E i, j \in 1..Len(edits) :
                 i # j /\ edits[i].file_path = edits[j].file_path)
              => fs' = InBatchOrder(fs, edits, 1)]_vars

\* C40: a find_references without a definition file, and a search with the
\* same query and options, return the matches a search computed on the index
\* returns, those in the definition file of an earlier find_references
\* among them.
C40_FindReferencesLeavesLaterQueries ==
    [][\A completed \in Orders(Len(select_files(file_index, FALSE))) :
          (find_references(NoDefinition, completed)
              \/ search(ReferenceArgs, completed))
          => \E order \in Orders(Len(select_files(file_index, FALSE))) :
                search_result'.result.matches =
                   search_uncached(file_index, ReferenceArgs, order).matches]_vars

====
